---- MODULE Spec2Model ----
(***************************************************************************)
(* A model of svgwrite_comic_machine: the page layout engine and the panel *)
(* splitter of make_comic_page.py, and the bubble geometry of             *)
(* speechbobs.py and thought_bubble.py.                                    *)
(*                                                                         *)
(* Python's float arithmetic is modelled by exact rational arithmetic: a   *)
(* number is a pair <<n, d>> in lowest terms with d > 0.  math.sqrt is     *)
(* defined on squares of rationals only, and every input set below is      *)
(* restricted to values whose roots are rational; a root of anything else  *)
(* has no value here instead of an approximated one.                       *)
(***************************************************************************)
EXTENDS Integers, Sequences, FiniteSets, TLC

VARIABLES pc, args, row, col, x, y, dwg, saved, ret

vars == <<pc, args, row, col, x, y, dwg, saved, ret>>

(***************************************************************************)
(* Bounds of the input sets.                                               *)
(***************************************************************************)
\* grid of the points given to get_normal_shift_vector: 0..MaxCoord
MaxCoord == 4
\* grid of the points given to get_line_intersection: 0..MaxLineCoord
MaxLineCoord == 2
\* magnitudes given to get_normal_shift_vector: k/2 for k in -MaxMag..MaxMag
MaxMag == 3
\* hours given to time_to_angle: -MaxHour..MaxHour
MaxHour == 13
\* minutes given to time_to_angle: 0..MaxMinute
MaxMinute == 60
\* angles given to the tail: 90*k degrees for k in 0..MaxQuarter
MaxQuarter == 4
\* offsets given to the tail: 0..MaxOffset in each direction
MaxOffset == 2
\* tail lengths: 0..MaxTail
MaxTail == 4
\* X-ratios of the straight and arrow splits: k/2 for k in -MaxJut..4+MaxJut
MaxJut == 1
\* X-ratios of the lightning split: k/8 for k in 8-MaxZig..8+MaxZig
MaxZig == 1
\* rows of a page: 0..MaxRows (and the three rows of <<1, 2, 3>>)
MaxRows == 2
\* columns of a row: 0..MaxCols (and the three columns of <<1, 2, 3>>)
MaxCols == 2

(***************************************************************************)
(* Rational arithmetic (the float operators of the source).                *)
(***************************************************************************)
Abs(n) == IF n < 0 THEN -n ELSE n

RECURSIVE GCD(_, _)
GCD(a, b) == IF b = 0 THEN a ELSE GCD(b, a % b)

\* a pair <<n, d>>, d # 0, brought to lowest terms with a positive denominator
Norm(p) ==
    LET g == GCD(Abs(p[1]), Abs(p[2]))
        s == IF p[2] < 0 THEN -1 ELSE 1
    IN  <<(s * p[1]) \div g, (s * p[2]) \div g>>

\* The operators below take their operands through a bound variable, so that
\* an operand is evaluated once however often the body uses it.
Value(S) == CHOOSE r \in S : TRUE

\* n/d in lowest terms
Rat(n, d) == Value({Norm(p) : p \in {<<n, d>>}})

I(n) == <<n, 1>>

\* the common factors are divided out before the products are taken
RAdd(a, b) ==
    Value({Norm(<<q[1][1] * (q[2][2] \div q[3]) + q[2][1] * (q[1][2] \div q[3]),
                  (q[1][2] \div q[3]) * q[2][2]>>) :
              q \in {<<p[1], p[2], GCD(p[1][2], p[2][2])>> : p \in {<<a, b>>}}})
RNeg(a) == Value({<<-p[1], p[2]>> : p \in {a}})
RSub(a, b) == RAdd(a, RNeg(b))
RMul(a, b) ==
    Value({Norm(<<(q[1][1] \div q[3]) * (q[2][1] \div q[4]),
                  (q[1][2] \div q[4]) * (q[2][2] \div q[3])>>) :
              q \in {<<p[1], p[2], GCD(Abs(p[1][1]), p[2][2]), GCD(Abs(p[2][1]), p[1][2])>> :
                        p \in {<<a, b>>}}})
\* a division by zero has no value
RDiv(a, b) ==
    Value({Norm(<<(q[1][1] \div q[3]) * (q[2][2] \div q[4]),
                  (q[1][2] \div q[4]) * (q[2][1] \div q[3])>>) :
              q \in {<<p[1], p[2], GCD(Abs(p[1][1]), Abs(p[2][1])), GCD(p[1][2], p[2][2])>> :
                        p \in {c \in {<<a, b>>} : c[2][1] # 0}}})
RLt(a, b) ==
    \E q \in {<<p[1], p[2], GCD(p[1][2], p[2][2])>> : p \in {<<a, b>>}} :
        q[1][1] * (q[2][2] \div q[3]) < q[2][1] * (q[1][2] \div q[3])
RLe(a, b) ==
    \E q \in {<<p[1], p[2], GCD(p[1][2], p[2][2])>> : p \in {<<a, b>>}} :
        q[1][1] * (q[2][2] \div q[3]) <= q[2][1] * (q[1][2] \div q[3])
RMax(a, b) == Value({IF RLt(p[1], p[2]) THEN p[2] ELSE p[1] : p \in {<<a, b>>}})
RMin(a, b) == Value({IF RLt(p[2], p[1]) THEN p[2] ELSE p[1] : p \in {<<a, b>>}})

\* the largest r in lo..hi with r*r <= k (lo*lo <= k)
RECURSIVE FloorRoot(_, _, _)
FloorRoot(lo, hi, k) ==
    IF lo >= hi THEN lo
    ELSE LET mid == (lo + hi + 1) \div 2
         IN  IF mid * mid <= k THEN FloorRoot(mid, hi, k)
             ELSE FloorRoot(lo, mid - 1, k)

\* the search stops at 46340, the largest root of a 32-bit integer
IsSquare(k) ==
    k >= 0 /\ \E r \in {FloorRoot(0, IF k > 46340 THEN 46340 ELSE k, k)} : r * r = k

\* whether a rational in lowest terms is the square of a rational
HasRationalRoot(a) == \E p \in {a} : IsSquare(p[1]) /\ IsSquare(p[2])

\* math.sqrt: the exact root; no value for a number that is not a square
RootOf(k) ==
    Value({r \in {FloorRoot(0, IF k > 46340 THEN 46340 ELSE k, k)} : r * r = k})

RSqrt(a) == Value({<<RootOf(p[1]), RootOf(p[2])>> : p \in {a}})

Zero == I(0)

\* the value None of the source
None == <<>>

\* no function has returned yet
NoCall == [none |-> TRUE]

\* A float so large that its square is beyond the largest float, such as
\* 1e200.  It is written <<1, 0>>, and <<-1, 0>> when negative: its sums and
\* its products with the numbers of the input sets below, none of them 0,
\* are floats of this kind again, as 1e200 + 5 and 40 * 1e200 are.
Huge == <<1, 0>>

\* v**2 raises OverflowError
SquareOverflows(v) == v[2] = 0

(***************************************************************************)
(* make_comic_page.py: geometry helpers.                                   *)
(***************************************************************************)
add_shift(point, shift) == <<RAdd(point[1], shift[1]), RAdd(point[2], shift[2])>>

\* N_x**2 + N_y**2 of the segment (p1, p2)
SquaredLength(p1, p2) ==
    RAdd(RMul(RSub(p2[1], p1[1]), RSub(p2[1], p1[1])),
         RMul(RSub(p2[2], p1[2]), RSub(p2[2], p1[2])))

\* get_normal_shift_vector with the two normals of the branches exchanged
get_normal_shift_vector_swapped(p1, p2, magnitude, direction) ==
    LET V_x == RSub(p2[1], p1[1])
        V_y == RSub(p2[2], p1[2])
        N_x == IF direction = "right" THEN RNeg(V_y) ELSE RNeg(V_y)
        N_y == IF direction = "right" THEN V_x ELSE V_x
        N_magnitude == RSqrt(RAdd(RMul(N_x, N_x), RMul(N_y, N_y)))
    IN  IF N_magnitude = Zero THEN <<Zero, Zero>>
        ELSE <<RMul(RDiv(N_x, N_magnitude), magnitude),
               RMul(RDiv(N_y, N_magnitude), magnitude)>>

get_normal_shift_vector(p1, p2, magnitude, direction) ==
    LET V_x == RSub(p2[1], p1[1])
        V_y == RSub(p2[2], p1[2])
        N_x == IF direction = "right" THEN V_y ELSE RNeg(V_y)
        N_y == IF direction = "right" THEN RNeg(V_x) ELSE V_x
        N_magnitude == RSqrt(RAdd(RMul(N_x, N_x), RMul(N_y, N_y)))
    IN  IF N_magnitude = Zero THEN <<Zero, Zero>>
        ELSE LET U_x == RDiv(N_x, N_magnitude)
                 U_y == RDiv(N_y, N_magnitude)
             IN  <<RMul(U_x, magnitude), RMul(U_y, magnitude)>>

\* get_normal_shift_vector raises at N_x**2 or at N_y**2
get_normal_shift_vector_raises(p1, p2) ==
    \/ SquareOverflows(RSub(p2[2], p1[2]))
    \/ SquareOverflows(RSub(p2[1], p1[1]))

\* get_line_intersection with the sign of b1 lost
get_line_intersection_b1(p1, p2, p3, p4) ==
    LET a1 == RSub(p2[2], p1[2])
        b1 == RSub(p2[1], p1[1])
        c1 == RAdd(RMul(a1, p1[1]), RMul(b1, p1[2]))
        a2 == RSub(p4[2], p3[2])
        b2 == RSub(p3[1], p4[1])
        c2 == RAdd(RMul(a2, p3[1]), RMul(b2, p3[2]))
        det == RSub(RMul(a1, b2), RMul(a2, b1))
    IN  IF det = Zero THEN None
        ELSE <<RDiv(RSub(RMul(b2, c1), RMul(b1, c2)), det),
               RDiv(RSub(RMul(a1, c2), RMul(a2, c1)), det)>>

get_line_intersection(p1, p2, p3, p4) ==
    LET a1 == RSub(p2[2], p1[2])
        b1 == RSub(p1[1], p2[1])
        c1 == RAdd(RMul(a1, p1[1]), RMul(b1, p1[2]))
        a2 == RSub(p4[2], p3[2])
        b2 == RSub(p3[1], p4[1])
        c2 == RAdd(RMul(a2, p3[1]), RMul(b2, p3[2]))
        det == RSub(RMul(a1, b2), RMul(a2, b1))
    IN  IF det = Zero THEN None
        ELSE <<RDiv(RSub(RMul(b2, c1), RMul(b1, c2)), det),
               RDiv(RSub(RMul(a1, c2), RMul(a2, c1)), det)>>

(***************************************************************************)
(* make_comic_page.py: draw_split_panels.  split_params is a function from *)
(* the keys given to their ratios; a point list is a sequence of points.   *)
(***************************************************************************)
\* split_params.get(key, default)
Get(split_params, key, default) ==
    IF key \in DOMAIN split_params THEN split_params[key] ELSE default

P1_WIDTH(panel_width, gutter) == RDiv(RSub(panel_width, gutter), I(2))

x_end_p1(x_start_p1, panel_width, gutter) == RAdd(x_start_p1, P1_WIDTH(panel_width, gutter))

x_start_p2(x_start_p1, panel_width, gutter) ==
    RAdd(x_end_p1(x_start_p1, panel_width, gutter), gutter)

\* x_end_p2 without the gutter between the two panels
x_end_p2_nogutter(x_start_p1, panel_width, gutter) ==
    RAdd(x_end_p1(x_start_p1, panel_width, gutter), P1_WIDTH(panel_width, gutter))

x_end_p2(x_start_p1, panel_width, gutter) ==
    RAdd(x_start_p2(x_start_p1, panel_width, gutter), P1_WIDTH(panel_width, gutter))

\* calc_x_ratio taking the ratio of the whole width instead of P1_WIDTH
calc_x_ratio_full(x_start_p1, panel_width, gutter, ratio) ==
    RAdd(x_start_p1, RMul(panel_width, ratio))

calc_x_ratio(x_start_p1, panel_width, gutter, ratio) ==
    RAdd(x_start_p1, RMul(P1_WIDTH(panel_width, gutter), ratio))

\* the straight split with the right boundary not shifted by the gutter
straight_points_noshift(x_start_p1, y_top, panel_width, panel_height, gutter, split_params) ==
    LET y_bottom == RAdd(y_top, panel_height)
        top_x_ratio == Get(split_params, "top_x_ratio", Rat(13, 10))
        bot_x_ratio == Get(split_params, "bot_x_ratio", Rat(7, 10))
        P1_TOP_L == <<calc_x_ratio(x_start_p1, panel_width, gutter, top_x_ratio), y_top>>
        P1_BOT_L == <<calc_x_ratio(x_start_p1, panel_width, gutter, bot_x_ratio), y_bottom>>
    IN  << <<(<<x_start_p1, y_top>>), P1_TOP_L, P1_BOT_L, (<<x_start_p1, y_bottom>>)>>,
           <<(<<x_end_p2(x_start_p1, panel_width, gutter), y_top>>),
             (<<x_end_p2(x_start_p1, panel_width, gutter), y_bottom>>),
             (<<x_start_p2(x_start_p1, panel_width, gutter), y_bottom>>),
             P1_BOT_L, P1_TOP_L>> >>

\* split_type == 'straight': <<p1_points, p2_points>>
straight_points(x_start_p1, y_top, panel_width, panel_height, gutter, split_params) ==
    LET y_bottom == RAdd(y_top, panel_height)
        top_x_ratio == Get(split_params, "top_x_ratio", Rat(13, 10))
        bot_x_ratio == Get(split_params, "bot_x_ratio", Rat(7, 10))
        P1_TOP_L == <<calc_x_ratio(x_start_p1, panel_width, gutter, top_x_ratio), y_top>>
        P1_BOT_L == <<calc_x_ratio(x_start_p1, panel_width, gutter, bot_x_ratio), y_bottom>>
        P2_TOP_R == <<RAdd(P1_TOP_L[1], gutter), P1_TOP_L[2]>>
        P2_BOT_R == <<RAdd(P1_BOT_L[1], gutter), P1_BOT_L[2]>>
    IN  << <<(<<x_start_p1, y_top>>), P1_TOP_L, P1_BOT_L, (<<x_start_p1, y_bottom>>)>>,
           <<(<<x_end_p2(x_start_p1, panel_width, gutter), y_top>>),
             (<<x_end_p2(x_start_p1, panel_width, gutter), y_bottom>>),
             (<<x_start_p2(x_start_p1, panel_width, gutter), y_bottom>>),
             P2_BOT_R, P2_TOP_R>> >>

\* the arrow split with the tip of the right panel not shifted by the gutter
arrow_points_tip_unshifted(x_start_p1, y_top, panel_width, panel_height, gutter, split_params) ==
    LET y_bottom == RAdd(y_top, panel_height)
        top_x_ratio == Get(split_params, "top_x_ratio", Rat(13, 10))
        bot_x_ratio == Get(split_params, "bot_x_ratio", Rat(7, 10))
        mid_y_ratio == Get(split_params, "mid_y_ratio", Rat(1, 2))
        depth_x_ratio == Get(split_params, "depth_x_ratio", Rat(8, 10))
        P1_TOP_L == <<calc_x_ratio(x_start_p1, panel_width, gutter, top_x_ratio), y_top>>
        P1_MID_L == <<calc_x_ratio(x_start_p1, panel_width, gutter, depth_x_ratio),
                      RAdd(y_top, RMul(panel_height, mid_y_ratio))>>
        P1_BOT_L == <<calc_x_ratio(x_start_p1, panel_width, gutter, bot_x_ratio), y_bottom>>
        P2_TOP_R == <<RAdd(P1_TOP_L[1], gutter), P1_TOP_L[2]>>
        P2_MID_R == <<P1_MID_L[1], P1_MID_L[2]>>
        P2_BOT_R == <<RAdd(P1_BOT_L[1], gutter), P1_BOT_L[2]>>
    IN  << <<(<<x_start_p1, y_top>>), P1_TOP_L, P1_MID_L, P1_BOT_L, (<<x_start_p1, y_bottom>>)>>,
           <<(<<x_end_p2(x_start_p1, panel_width, gutter), y_top>>),
             (<<x_end_p2(x_start_p1, panel_width, gutter), y_bottom>>),
             (<<x_start_p2(x_start_p1, panel_width, gutter), y_bottom>>),
             P2_BOT_R, P2_MID_R, P2_TOP_R>> >>

\* split_type == 'arrow': <<p1_points, p2_points>>
arrow_points(x_start_p1, y_top, panel_width, panel_height, gutter, split_params) ==
    LET y_bottom == RAdd(y_top, panel_height)
        top_x_ratio == Get(split_params, "top_x_ratio", Rat(13, 10))
        bot_x_ratio == Get(split_params, "bot_x_ratio", Rat(7, 10))
        mid_y_ratio == Get(split_params, "mid_y_ratio", Rat(1, 2))
        depth_x_ratio == Get(split_params, "depth_x_ratio", Rat(8, 10))
        P1_TOP_L == <<calc_x_ratio(x_start_p1, panel_width, gutter, top_x_ratio), y_top>>
        P1_MID_L == <<calc_x_ratio(x_start_p1, panel_width, gutter, depth_x_ratio),
                      RAdd(y_top, RMul(panel_height, mid_y_ratio))>>
        P1_BOT_L == <<calc_x_ratio(x_start_p1, panel_width, gutter, bot_x_ratio), y_bottom>>
        P2_TOP_R == <<RAdd(P1_TOP_L[1], gutter), P1_TOP_L[2]>>
        P2_MID_R == <<RAdd(P1_MID_L[1], gutter), P1_MID_L[2]>>
        P2_BOT_R == <<RAdd(P1_BOT_L[1], gutter), P1_BOT_L[2]>>
    IN  << <<(<<x_start_p1, y_top>>), P1_TOP_L, P1_MID_L, P1_BOT_L, (<<x_start_p1, y_bottom>>)>>,
           <<(<<x_end_p2(x_start_p1, panel_width, gutter), y_top>>),
             (<<x_end_p2(x_start_p1, panel_width, gutter), y_bottom>>),
             (<<x_start_p2(x_start_p1, panel_width, gutter), y_bottom>>),
             P2_BOT_R, P2_MID_R, P2_TOP_R>> >>

\* get_line_intersection(p1, p2, p3, p4), or the fallback point when it is None
IntersectionOr(p1, p2, p3, p4, fallback) ==
    LET P == get_line_intersection(p1, p2, p3, p4)
    IN  IF P = None THEN fallback ELSE P

\* the centre line A_C, B_C, C_C, D_C of the lightning bolt
lightning_centre(x_start_p1, y_top, panel_width, panel_height, gutter, split_params) ==
    LET top_x_ratio == Get(split_params, "top_x_ratio", Rat(13, 10))
        bot_x_ratio == Get(split_params, "bot_x_ratio", Rat(7, 10))
        zig_y_ratio == Get(split_params, "zig_y_ratio", Rat(60, 100))
        zig_depth_x_ratio == Get(split_params, "zig_depth_x_ratio", I(1))
        zag_y_ratio == Get(split_params, "zag_y_ratio", Rat(55, 100))
        zag_depth_x_ratio == Get(split_params, "zag_depth_x_ratio", Rat(9, 10))
    IN  << <<calc_x_ratio(x_start_p1, panel_width, gutter, top_x_ratio), y_top>>,
           <<calc_x_ratio(x_start_p1, panel_width, gutter, zig_depth_x_ratio),
             RAdd(y_top, RMul(panel_height, zig_y_ratio))>>,
           <<calc_x_ratio(x_start_p1, panel_width, gutter, zag_depth_x_ratio),
             RAdd(y_top, RMul(panel_height, zag_y_ratio))>>,
           <<calc_x_ratio(x_start_p1, panel_width, gutter, bot_x_ratio),
             RAdd(y_top, panel_height)>> >>

\* one of the calls of get_normal_shift_vector for the bolt raises
lightning_raises(centre) ==
    \E k \in 1..3 : get_normal_shift_vector_raises(centre[k], centre[k + 1])

\* S_AB, S_BC, S_CD of one side ('right' or 'left')
lightning_shift_vectors(centre, gutter, side) ==
    <<get_normal_shift_vector(centre[1], centre[2], RDiv(gutter, I(2)), side),
      get_normal_shift_vector(centre[2], centre[3], RDiv(gutter, I(2)), side),
      get_normal_shift_vector(centre[3], centre[4], RDiv(gutter, I(2)), side)>>

\* the raw shifted points of one side:
\* <<E_raw or I_raw, B_prime_AB, B_prime_BC, C_prime_BC, C_prime_CD, D_prime>>
lightning_raw_points(centre, shifts) ==
    <<add_shift(centre[1], shifts[1]), add_shift(centre[2], shifts[1]),
      add_shift(centre[2], shifts[2]), add_shift(centre[3], shifts[2]),
      add_shift(centre[3], shifts[3]), add_shift(centre[4], shifts[3])>>

\* lightning_joints falling back to the start of the first offset segment
lightning_joints_from_start(raw) ==
    <<IntersectionOr(raw[1], raw[2], raw[3], raw[4], raw[1]),
      IntersectionOr(raw[3], raw[4], raw[5], raw[6], raw[3])>>

\* the two jagged corners of one side: <<F, G>> or <<J, K>>
lightning_joints(raw) ==
    <<IntersectionOr(raw[1], raw[2], raw[3], raw[4], raw[2]),
      IntersectionOr(raw[3], raw[4], raw[5], raw[6], raw[4])>>

\* <<TOP_EDGE_P1, TOP_EDGE_P2, BOT_EDGE_P1, BOT_EDGE_P2>>
lightning_edges(x_start_p1, y_top, panel_width, panel_height, gutter) ==
    <<(<<x_start_p1, y_top>>),
      (<<x_end_p2(x_start_p1, panel_width, gutter), y_top>>),
      (<<x_start_p1, RAdd(y_top, panel_height)>>),
      (<<x_end_p2(x_start_p1, panel_width, gutter), RAdd(y_top, panel_height)>>)>>

\* one side's boundary sealed on the top and bottom edges:
\* [E_top, F, G, H_bot] or [I_top, J, K, L_bot]
lightning_seals(raw, joints, edges) ==
    <<IntersectionOr(raw[1], joints[1], edges[1], edges[2], raw[1]),
      joints[1], joints[2],
      IntersectionOr(joints[2], raw[6], edges[3], edges[4], raw[6])>>

\* the stages below hand their results on through a bound variable, which
\* holds a value computed once
lightning_sealed(raw, edges) ==
    Value({lightning_seals(raw, joints, edges) : joints \in {lightning_joints(raw)}})

lightning_shifted(centre, shifts, edges) ==
    Value({lightning_sealed(raw, edges) : raw \in {lightning_raw_points(centre, shifts)}})

lightning_side(centre, edges, gutter, side) ==
    Value({lightning_shifted(centre, shifts, edges) :
              shifts \in {lightning_shift_vectors(centre, gutter, side)}})

\* boundary_R for 'right' and boundary_L for 'left'
lightning_boundary(x_start_p1, y_top, panel_width, panel_height, gutter, split_params, side) ==
    Value({lightning_side(c[1], c[2], gutter, side) :
              c \in {<<lightning_centre(x_start_p1, y_top, panel_width, panel_height,
                                        gutter, split_params),
                       lightning_edges(x_start_p1, y_top, panel_width, panel_height,
                                       gutter)>>}})

\* a boundary traversed from the bottom up
Reversed(s) == [k \in 1..Len(s) |-> s[Len(s) + 1 - k]]

\* split_type == 'lightning': <<p1_points, p2_points>>
lightning_points(x_start_p1, y_top, panel_width, panel_height, gutter, split_params) ==
    << <<(<<x_start_p1, y_top>>)>>
          \o lightning_boundary(x_start_p1, y_top, panel_width, panel_height,
                                gutter, split_params, "left")
          \o <<(<<x_start_p1, RAdd(y_top, panel_height)>>)>>,
       <<(<<x_end_p2(x_start_p1, panel_width, gutter), y_top>>),
         (<<x_end_p2(x_start_p1, panel_width, gutter), RAdd(y_top, panel_height)>>),
         (<<x_start_p2(x_start_p1, panel_width, gutter), RAdd(y_top, panel_height)>>)>>
          \o Reversed(lightning_boundary(x_start_p1, y_top, panel_width, panel_height,
                                         gutter, split_params, "right")) >>

SplitTypes == {"straight", "arrow", "lightning"}

\* the point lists of the two polygons; none for an unknown split type
split_polygons(x_start_p1, y_top, panel_width, panel_height, gutter, split_type, split_params) ==
    CASE split_type = "straight" ->
            straight_points(x_start_p1, y_top, panel_width, panel_height, gutter, split_params)
      [] split_type = "arrow" ->
            arrow_points(x_start_p1, y_top, panel_width, panel_height, gutter, split_params)
      [] split_type = "lightning" ->
            lightning_points(x_start_p1, y_top, panel_width, panel_height, gutter, split_params)
      [] OTHER -> <<>>

Polygon(points) ==
    [kind |-> "polygon", points |-> points, stroke |-> "panel_stroke",
     fill |-> "panel_fill", stroke_width |-> 3]

\* what one call adds to the drawing and the value it returns, or the
\* exception it raises before it has added anything
draw_split_panels(x_start_p1, y_top, panel_width, panel_height, gutter, split_type, split_params) ==
    IF /\ split_type = "lightning"
       /\ lightning_raises(lightning_centre(x_start_p1, y_top, panel_width, panel_height,
                                            gutter, split_params))
    THEN [raised |-> "OverflowError"]
    ELSE LET polygons == split_polygons(x_start_p1, y_top, panel_width, panel_height,
                                        gutter, split_type, split_params)
         IN  [added |-> [k \in 1..Len(polygons) |-> Polygon(polygons[k])],
              returns |-> x_end_p2(x_start_p1, panel_width, gutter)]

(***************************************************************************)
(* Calls of draw_split_panels.                                             *)
(***************************************************************************)
\* the regions split: with and without a gutter, at whole and at half pixels
SplitFrames ==
    {[x_start_p1 |-> I(0), y_top |-> I(0), panel_width |-> I(90),
      panel_height |-> I(40), gutter |-> I(10)],
     [x_start_p1 |-> I(20), y_top |-> I(30), panel_width |-> I(64),
      panel_height |-> I(24), gutter |-> I(0)],
     [x_start_p1 |-> Rat(65, 2), y_top |-> I(20), panel_width |-> I(74),
      panel_height |-> I(24), gutter |-> I(10)]}

XRatios == {Rat(k, 2) : k \in (-MaxJut)..(4 + MaxJut)}
YRatios == {Rat(k, 4) : k \in 0..4}
ZigXRatios == {Rat(k, 8) : k \in (8 - MaxZig)..(8 + MaxZig)}
ZigYRatios == {I(0), Rat(3, 8), Rat(1, 2), Rat(5, 8), I(1)}

\* split_params = {}: every ratio takes its default
NoParams == [k \in {} |-> Zero]

StraightParams == [top_x_ratio : XRatios, bot_x_ratio : XRatios] \cup {NoParams}

ArrowParams ==
    [top_x_ratio : XRatios, bot_x_ratio : XRatios,
     mid_y_ratio : YRatios, depth_x_ratio : XRatios] \cup {NoParams}

LightningParams ==
    [top_x_ratio : ZigXRatios, bot_x_ratio : ZigXRatios,
     zig_y_ratio : ZigYRatios, zig_depth_x_ratio : ZigXRatios,
     zag_y_ratio : ZigYRatios, zag_depth_x_ratio : ZigXRatios]

\* one X-ratio of the bolt is a huge float, the other ratios their defaults
HugeParams ==
    {[top_x_ratio |-> Huge], [zag_depth_x_ratio |-> Huge], [bot_x_ratio |-> Huge]}

\* a bolt whose first segment has the length of half the gutter of 10 and
\* meets the second at a right angle: on a frame 24 high with halves 32 wide
\* the offset line of B-C passes through the raw offset point of A
CornerBolt ==
    [top_x_ratio |-> Rat(1, 2), bot_x_ratio |-> Rat(11, 32),
     zig_y_ratio |-> Rat(1, 6), zig_depth_x_ratio |-> Rat(19, 32),
     zag_y_ratio |-> Rat(5, 12), zag_depth_x_ratio |-> Rat(11, 32)]

\* the three centre segments have rational lengths, so math.sqrt is exact
RationalBolt(f, q) ==
    LET centre == lightning_centre(f.x_start_p1, f.y_top, f.panel_width,
                                   f.panel_height, f.gutter, q)
    IN  \A k \in 1..3 : HasRationalRoot(SquaredLength(centre[k], centre[k + 1]))

SplitCall(f, t, q) ==
    [x_start_p1 |-> f.x_start_p1, y_top |-> f.y_top, panel_width |-> f.panel_width,
     panel_height |-> f.panel_height, gutter |-> f.gutter,
     split_type |-> t, split_params |-> q]

SplitInputs ==
    {SplitCall(f, "straight", q) : f \in SplitFrames, q \in StraightParams}
    \cup {SplitCall(f, "arrow", q) : f \in SplitFrames, q \in ArrowParams}
    \cup {SplitCall(fq[1], "lightning", fq[2]) :
              fq \in {c \in SplitFrames \X LightningParams : RationalBolt(c[1], c[2])}}
    \cup {SplitCall(f, "lightning", q) : f \in SplitFrames, q \in HugeParams}
    \cup {SplitCall(f, "lightning", CornerBolt) :
              f \in {c \in SplitFrames : RationalBolt(c, CornerBolt)}}
    \cup {SplitCall(f, "zigzag", q) : f \in SplitFrames,
              q \in {NoParams, [top_x_ratio |-> I(1), bot_x_ratio |-> I(1)]}}

InitSplit ==
    /\ pc = "split"
    /\ args \in SplitInputs
    /\ row = 0 /\ col = 0 /\ x = Zero /\ y = Zero
    /\ dwg = <<>> /\ saved = 0
    /\ ret = NoCall

CallDrawSplitPanels ==
    /\ pc = "split"
    /\ \E call \in {draw_split_panels(args.x_start_p1, args.y_top, args.panel_width,
                                      args.panel_height, args.gutter,
                                      args.split_type, args.split_params)} :
          IF "raised" \in DOMAIN call
          THEN /\ ret' = call
               /\ pc' = "split_error"
               /\ dwg' = dwg
          ELSE /\ dwg' = dwg \o call.added
               /\ ret' = [x_end |-> call.returns]
               /\ pc' = "split_done"
    /\ UNCHANGED <<args, row, col, x, y, saved>>

NextSplit == CallDrawSplitPanels

SpecSplit == InitSplit /\ [][NextSplit]_vars

(***************************************************************************)
(* Claims about draw_split_panels.                                         *)
(***************************************************************************)
SplitDone == pc = "split_done"

Recognised == args.split_type \in SplitTypes

\* the point lists of the left and of the right polygon
LeftPoints == dwg[1].points
RightPoints == dwg[2].points

\* X of the right polygon's boundary vertex minus X of the left polygon's
TopGap == RSub(RightPoints[Len(RightPoints)][1], LeftPoints[2][1])
BottomGap == RSub(RightPoints[4][1], LeftPoints[Len(LeftPoints) - 1][1])

\* the X of every vertex of both polygons
AllXs == {LeftPoints[k][1] : k \in DOMAIN LeftPoints}
            \cup {RightPoints[k][1] : k \in DOMAIN RightPoints}

\* largest vertex X minus smallest vertex X
Span ==
    RSub(CHOOSE m \in AllXs : \A o \in AllXs : RLe(o, m),
         CHOOSE m \in AllXs : \A o \in AllXs : RLe(m, o))

RightEdge == RAdd(args.x_start_p1, args.panel_width)

\* the centre line of the bolt of this call
CentreLine ==
    lightning_centre(args.x_start_p1, args.y_top, args.panel_width,
                     args.panel_height, args.gutter, args.split_params)

\* segment k of the centre line runs straight down over a positive height
VerticalDown(k) ==
    /\ CentreLine[k][1] = CentreLine[k + 1][1]
    /\ RLt(CentreLine[k][2], CentreLine[k + 1][2])

\* the X-ratios the straight or arrow split of this call uses
XRatiosUsed ==
    {Get(args.split_params, "top_x_ratio", Rat(13, 10)),
     Get(args.split_params, "bot_x_ratio", Rat(7, 10))}
    \cup (IF args.split_type = "arrow"
          THEN {Get(args.split_params, "depth_x_ratio", Rat(8, 10))} ELSE {})

C6_Original_SpanIsTotalWidth ==
    SplitDone /\ Recognised => Span = args.panel_width

\* C6 amended: for every recognised style the outer corners of the polygons
\* are at x_start_p1 and at x_start_p1 + panel_width, so the span is at least
\* totalWidth; for the straight and the arrow split with every X-ratio in
\* [0, 2] (and 0 <= gutter <= totalWidth) the span equals totalWidth exactly.
C6_SpanWithRatiosInRange ==
    SplitDone /\ Recognised =>
        /\ args.x_start_p1 \in AllXs
        /\ RightEdge \in AllXs
        /\ RLe(args.panel_width, Span)
        /\ (/\ args.split_type \in {"straight", "arrow"}
            /\ \A r \in XRatiosUsed : RLe(Zero, r) /\ RLe(r, I(2)))
              => Span = args.panel_width

C6_Witness ==
    /\ SplitDone
    /\ args.split_type = "arrow"
    /\ args.gutter # Zero
    /\ I(2) \in XRatiosUsed
    /\ Zero \in XRatiosUsed
    /\ Span = args.panel_width

\* the number of boundary vertices of a straight or an arrow split
BoundaryCount == IF args.split_type = "straight" THEN 2 ELSE 3

BottomY == RAdd(args.y_top, args.panel_height)

C15_SealsOnTheEdges ==
    SplitDone /\ args.split_type = "lightning" =>
        /\ LeftPoints[2][2] = args.y_top
        /\ RightPoints[7][2] = args.y_top
        /\ LeftPoints[5][2] = BottomY
        /\ RightPoints[4][2] = BottomY

\* a float
IsNumber(v) == v # None /\ Len(v) = 2 /\ v[1] \in Int /\ v[2] \in Nat \ {0}

\* a vertex with both coordinates defined
IsVertex(p) == p # None /\ Len(p) = 2 /\ IsNumber(p[1]) /\ IsNumber(p[2])

\* the raw shifted points of one side of the bolt of this call
RawPoints(side) ==
    lightning_raw_points(CentreLine, lightning_shift_vectors(CentreLine, args.gutter, side))

\* the joints at B and at C of one side, as drawn: J, K or F, G
DrawnJoints(side) ==
    IF side = "left" THEN <<LeftPoints[3], LeftPoints[4]>>
    ELSE <<RightPoints[6], RightPoints[5]>>

\* the part of C16 about a call that returns: a centre segment of no length
\* has the shift (0, 0), a joint of two parallel offset lines is the first
\* segment's offset endpoint (B shifted by the A-B offset, C shifted by the
\* B-C offset), and the left polygon has exactly 6 and the right polygon
\* exactly 7 vertices, all defined.
BoltFallbacks ==
    SplitDone /\ args.split_type = "lightning" =>
        /\ ret = [x_end |-> RightEdge]
        /\ Len(dwg) = 2
        /\ Len(LeftPoints) = 6 /\ \A k \in 1..6 : IsVertex(LeftPoints[k])
        /\ Len(RightPoints) = 7 /\ \A k \in 1..7 : IsVertex(RightPoints[k])
        /\ \A side \in {"left", "right"} :
              /\ \A k \in 1..3 :
                    CentreLine[k] = CentreLine[k + 1] =>
                        get_normal_shift_vector(CentreLine[k], CentreLine[k + 1],
                                                RDiv(args.gutter, I(2)), side)
                            = <<Zero, Zero>>
              /\ \A raw \in {RawPoints(side)} :
                    /\ get_line_intersection(raw[1], raw[2], raw[3], raw[4]) = None
                          => DrawnJoints(side)[1] = raw[2]
                    /\ get_line_intersection(raw[3], raw[4], raw[5], raw[6]) = None
                          => DrawnJoints(side)[2] = raw[4]

\* C16 as stated: for the lightning split with any numeric ratios
\* draw_split_panels never raises, each joint of parallel offset lines falls
\* back to the first segment's offset endpoint, and the polygons drawn have
\* exactly 6 and exactly 7 defined vertices.
C16_NeverRaises ==
    /\ args.split_type = "lightning" => pc # "split_error"
    /\ BoltFallbacks

\* vertex k of a boundary of the bolt, as drawn: I_top, J, K, L_bot on the
\* left and E_top, F, G, H_bot on the right
BoundaryL(k) == LeftPoints[k + 1]
BoundaryR(k) == RightPoints[8 - k]

\* p and q are point reflections of each other through c
Reflected(p, q, c) ==
    /\ RAdd(p[1], q[1]) = RMul(I(2), c[1])
    /\ RAdd(p[2], q[2]) = RMul(I(2), c[2])

\* the joint at B (k = 1) or at C (k = 2) of one side takes its fallback
JointFallsBack(side, k) ==
    \E raw \in {RawPoints(side)} :
        get_line_intersection(raw[2 * k - 1], raw[2 * k], raw[2 * k + 1], raw[2 * k + 2])
            = None

\* the top seal (k = 1) or the bottom seal (k = 2) of one side takes its fallback
SealFallsBack(side, k) ==
    \E raw \in {RawPoints(side)} :
        \E edges \in {lightning_edges(args.x_start_p1, args.y_top, args.panel_width,
                                      args.panel_height, args.gutter)} :
            IF k = 1
            THEN get_line_intersection(raw[1], DrawnJoints(side)[1], edges[1], edges[2])
                     = None
            ELSE get_line_intersection(DrawnJoints(side)[2], raw[6], edges[3], edges[4])
                     = None

TopSealAlongOffset ==
    \/ CentreLine[1] = CentreLine[2]
    \/ \A side \in {"left", "right"} : DrawnJoints(side)[1] # RawPoints(side)[1]

\* the bottom seal line of each side runs along the offset line of C-D: the
\* joint at C is an intersection and not the raw offset point of D, or C = D
BottomSealAlongOffset ==
    \/ CentreLine[3] = CentreLine[4]
    \/ \A side \in {"left", "right"} :
          /\ ~JointFallsBack(side, 2)
          /\ DrawnJoints(side)[2] # RawPoints(side)[6]

Rect(insert, size) ==
    [kind |-> "rect", insert |-> insert, size |-> size, stroke |-> "panel_stroke",
     fill |-> "panel_fill", stroke_width |-> 3]

Background(width, height) ==
    [kind |-> "rect", insert |-> <<Zero, Zero>>, size |-> <<width, height>>,
     fill |-> "background"]

panel_height(a) ==
    RDiv(RSub(RSub(a.height, RMul(I(2), a.margin)),
              RMul(I(Len(a.row_config) - 1), a.gutter)),
         I(Len(a.row_config)))

\* a division by total_cols = 0 has no value: the source raises there
standard_panel_width(a, total_cols) ==
    RDiv(RSub(RSub(a.width, RMul(I(2), a.margin)), RMul(I(total_cols - 1), a.gutter)),
         I(total_cols))

\* the width of two standard panels without the gutter between them
split_area_width_nogutter(a, total_cols) ==
    RMul(standard_panel_width(a, total_cols), I(2))

split_area_width(a, total_cols) ==
    RAdd(RMul(standard_panel_width(a, total_cols), I(2)), a.gutter)

\* total_cols of the row the loop is at
total_cols == args.row_config[row + 1]

\* is_split_pair without the test that a column follows
is_split_pair_anywhere == <<row, col>> \in args.split_panels

is_split_pair == <<row, col>> \in args.split_panels /\ col + 1 < total_cols

\* the rectangle of the whole page, then the first row or the empty page
StartPage ==
    /\ pc = "page"
    /\ dwg' = dwg \o <<Background(args.width, args.height)>>
    /\ IF Len(args.row_config) = 0
       THEN /\ saved' = saved + 1
            /\ ret' = [returned |-> None]
            /\ pc' = "done"
            /\ y' = y
       ELSE /\ y' = args.margin
            /\ pc' = "row"
            /\ UNCHANGED <<saved, ret>>
    /\ UNCHANGED <<args, row, col, x>>

\* for r, total_cols in enumerate(row_config): a row of total_cols # 0
StartRow ==
    /\ pc = "row"
    /\ row < Len(args.row_config)
    /\ total_cols # 0
    /\ x' = args.margin
    /\ col' = 0
    /\ pc' = "col"
    /\ UNCHANGED <<args, row, y, dwg, saved, ret>>

\* standard_panel_width of a row of 0 columns: ZeroDivisionError, which
\* nothing catches; the page is not saved
RaiseZeroDivision ==
    /\ pc = "row"
    /\ row < Len(args.row_config)
    /\ total_cols = 0
    /\ ret' = [raised |-> "ZeroDivisionError"]
    /\ pc' = "error"
    /\ UNCHANGED <<args, row, col, x, y, dwg, saved>>

\* DrawSplitPair moving to the next column instead of skipping it
DrawSplitPair_NoSkip ==
    /\ pc = "col"
    /\ col < total_cols
    /\ is_split_pair
    /\ \E size \in {<<split_area_width(args, total_cols), panel_height(args)>>} :
          \E call \in {draw_split_panels(x, y, size[1], size[2], args.gutter,
                                         args.split_type, args.split_params)} :
              IF "raised" \in DOMAIN call
              THEN /\ ret' = call
                   /\ pc' = "error"
                   /\ UNCHANGED <<dwg, x, col>>
              ELSE /\ dwg' = dwg \o call.added
                   /\ x' = IF col + 2 < total_cols THEN RAdd(call.returns, args.gutter)
                           ELSE call.returns
                   /\ col' = col + 1
                   /\ UNCHANGED <<pc, ret>>
    /\ UNCHANGED <<args, row, y, saved>>

\* the columns c and c + 1 drawn by draw_split_panels; an exception of
\* draw_split_panels is caught nowhere and ends the call without a save
DrawSplitPair ==
    /\ pc = "col"
    /\ col < total_cols
    /\ is_split_pair
    /\ \E size \in {<<split_area_width(args, total_cols), panel_height(args)>>} :
          \E call \in {draw_split_panels(x, y, size[1], size[2], args.gutter,
                                         args.split_type, args.split_params)} :
              IF "raised" \in DOMAIN call
              THEN /\ ret' = call
                   /\ pc' = "error"
                   /\ UNCHANGED <<dwg, x, col>>
              ELSE /\ dwg' = dwg \o call.added
                   /\ x' = IF col + 2 < total_cols THEN RAdd(call.returns, args.gutter)
                           ELSE call.returns
                   /\ col' = col + 2
                   /\ UNCHANGED <<pc, ret>>
    /\ UNCHANGED <<args, row, y, saved>>

\* the standard rectangular panel of column c
DrawRect ==
    /\ pc = "col"
    /\ col < total_cols
    /\ ~is_split_pair
    /\ dwg' = dwg \o <<Rect(<<x, y>>, <<standard_panel_width(args, total_cols),
                                        panel_height(args)>>)>>
    /\ x' = RAdd(x, RAdd(standard_panel_width(args, total_cols), args.gutter))
    /\ col' = col + 1
    /\ UNCHANGED <<pc, args, row, y, saved, ret>>

\* the while loop ends: move down to the next row
EndRow ==
    /\ pc = "col"
    /\ col >= total_cols
    /\ y' = RAdd(y, RAdd(panel_height(args), args.gutter))
    /\ row' = row + 1
    /\ pc' = "row"
    /\ UNCHANGED <<args, col, x, dwg, saved, ret>>

\* the for loop ends: dwg.save()
SavePage ==
    /\ pc = "row"
    /\ row = Len(args.row_config)
    /\ saved' = saved + 1
    /\ ret' = [returned |-> None]
    /\ pc' = "done"
    /\ UNCHANGED <<args, row, col, x, y, dwg>>

(***************************************************************************)
(* Calls of make_comic_page.                                               *)
(***************************************************************************)
\* the page of the default parameters
DefaultPage == [width |-> I(1920), height |-> I(1080), margin |-> I(20), gutter |-> I(10)]

\* a small page: the products of its coordinates in get_line_intersection
\* stay below 2^31
SmallPage == [width |-> I(200), height |-> I(110), margin |-> I(10), gutter |-> I(6)]

RowConfigs ==
    UNION {[1..n -> 0..MaxCols] : n \in 0..MaxRows} \cup {<<1, 2, 3>>}

SplitMarks == {<<r, c>> : r \in 0..MaxRows, c \in 0..MaxCols}

\* no mark, one mark, or a mark and the mark of the column after it
SplitSets ==
    {{}} \cup {{m} : m \in SplitMarks}
         \cup {{m, <<m[1], m[2] + 1>>} : m \in SplitMarks}

\* a bolt of vertical and horizontal segments: its lengths are rational on
\* every page
StepBolt ==
    [top_x_ratio |-> I(1), bot_x_ratio |-> Rat(3, 4),
     zig_y_ratio |-> Rat(1, 2), zig_depth_x_ratio |-> I(1),
     zag_y_ratio |-> Rat(1, 2), zag_depth_x_ratio |-> Rat(3, 4)]

\* split_type with its split_params; 'zigzag' is no split type
LayoutStyles ==
    {<<"arrow", NoParams>>, <<"straight", NoParams>>, <<"zigzag", NoParams>>,
     <<"straight", [top_x_ratio |-> Rat(5, 2)]>>}

LayoutCall(p, rc, marks, style) ==
    [width |-> p.width, height |-> p.height, row_config |-> rc,
     margin |-> p.margin, gutter |-> p.gutter, split_panels |-> marks,
     split_type |-> style[1], split_params |-> style[2]]

LayoutInputs ==
    {LayoutCall(p, rc, {}, <<"arrow", NoParams>>) :
         p \in {DefaultPage, SmallPage}, rc \in RowConfigs}
    \cup {LayoutCall(p, rc, marks, style) :
              p \in {DefaultPage, SmallPage}, rc \in RowConfigs \ {<<>>},
              marks \in SplitSets \ {{}}, style \in LayoutStyles}
    \cup {LayoutCall(SmallPage, rc, marks, <<"lightning", q>>) :
              rc \in RowConfigs \ {<<>>}, marks \in SplitSets \ {{}},
              q \in {StepBolt, [top_x_ratio |-> Huge]}}

InitLayout ==
    /\ pc = "page"
    /\ args \in LayoutInputs
    /\ row = 0 /\ col = 0 /\ x = Zero /\ y = Zero
    /\ dwg = <<>> /\ saved = 0
    /\ ret = NoCall

NextLayout ==
    \/ StartPage
    \/ StartRow
    \/ RaiseZeroDivision
    \/ DrawSplitPair
    \/ DrawRect
    \/ EndRow
    \/ SavePage

SpecLayout == InitLayout /\ [][NextLayout]_vars

(***************************************************************************)
(* Claims about make_comic_page.                                           *)
(***************************************************************************)
\* the call has returned or raised
CallEnded == pc \in {"done", "error"}

RECURSIVE SumOf(_)
SumOf(s) == IF s = <<>> THEN 0 ELSE Head(s) + SumOf(Tail(s))

\* the shapes after the background
Panels == SubSeq(dwg, 2, Len(dwg))

\* the top edge of a shape: of a polygon, the Y of its first corner
ShapeY(s) == IF s.kind = "rect" THEN s.insert[2] ELSE s.points[1][2]

\* where row r and column j of row r begin
RowY(r) == RAdd(args.margin, RMul(I(r), RAdd(panel_height(args), args.gutter)))

ColX(r, j) ==
    RAdd(args.margin,
         RMul(I(j), RAdd(standard_panel_width(args, args.row_config[r + 1]), args.gutter)))

\* the shapes of row r, in the order drawn
RowShapes(r) == SelectSeq(Panels, LAMBDA s : ShapeY(s) = RowY(r))

\* what the column cursor is to draw from column c of row r on: a rectangle
\* for a column, the left and the right polygon for a split pair
RECURSIVE ExpectedShapes(_, _)
ExpectedShapes(r, c) ==
    IF c >= args.row_config[r + 1] THEN <<>>
    ELSE IF <<r, c>> \in args.split_panels /\ c + 1 < args.row_config[r + 1]
         THEN <<"left", "right">> \o ExpectedShapes(r, c + 2)
         ELSE <<"rect">> \o ExpectedShapes(r, c + 1)

\* shape s is the panel of column j of row r
DrawnAs(s, what, r, j) ==
    CASE what = "rect" ->
            s = Rect(<<ColX(r, j), RowY(r)>>,
                     <<standard_panel_width(args, args.row_config[r + 1]),
                       panel_height(args)>>)
      [] what = "left" ->
            /\ s.kind = "polygon"
            /\ s.points[1] = <<ColX(r, j), RowY(r)>>
      [] what = "right" ->
            /\ s.kind = "polygon"
            /\ s.points[1] = <<RAdd(ColX(r, j),
                                    standard_panel_width(args, args.row_config[r + 1])),
                               RowY(r)>>

\* C1 as stated: with no split pairs the call emits the background first and
\* then exactly sum(row_config) rectangles, all of one height and those of a
\* row of one width.
C1_BackgroundThenAllPanels ==
    CallEnded /\ args.split_panels = {} =>
        /\ dwg[1] = Background(args.width, args.height)
        /\ Len(dwg) = 1 + SumOf(args.row_config)
        /\ \A k \in 2..Len(dwg) : dwg[k].kind = "rect"
        /\ \A j, k \in 2..Len(dwg) :
              /\ dwg[j].size[2] = dwg[k].size[2]
              /\ dwg[j].insert[2] = dwg[k].insert[2] => dwg[j].size[1] = dwg[k].size[1]

\* C2: for a recognised split style and any split pairs, a finished row of
\* n >= 1 columns has emitted exactly n shapes, one per column in order:
\* two polygons over 2 * standard width + gutter for each pair the cursor
\* reached with c + 1 < n, a rectangle for every other column.
C2_RowEmitsOneShapePerColumn ==
    args.split_type \in SplitTypes =>
        \A r \in 0..(row - 1) :
            args.row_config[r + 1] >= 1 =>
                /\ Len(RowShapes(r)) = args.row_config[r + 1]
                /\ Len(ExpectedShapes(r, 0)) = args.row_config[r + 1]
                /\ \A k \in 1..args.row_config[r + 1] :
                      DrawnAs(RowShapes(r)[k], ExpectedShapes(r, 0)[k], r, k - 1)

C2_Witness ==
    /\ pc = "done"
    /\ args.row_config = <<1, 2, 3>>
    /\ args.split_panels = {<<1, 0>>}
    /\ args.split_type = "arrow"
    /\ Len(RowShapes(1)) = 2
    /\ \A k \in 1..2 : RowShapes(1)[k].kind = "polygon"

\* C3 as stated: a row of 0 columns is skipped, raising no error; the other
\* rows are drawn and the page is saved.
C3_ZeroRowIsSkipped ==
    CallEnded /\ (\E r \in DOMAIN args.row_config : args.row_config[r] = 0) =>
        /\ ret = [returned |-> None]
        /\ row = Len(args.row_config)
        /\ saved = 1

\* C13 as stated, for make_comic_page: every call, whatever its inputs, ends
\* by saving the drawing exactly once; no call ends without a save.
C13_EveryCallEndsBySaving ==
    /\ saved <= 1
    /\ CallEnded => saved = 1

\* the column cursor is at the last column of its row, and the column is marked
MarkOnLastColumn ==
    /\ pc = "col"
    /\ col < total_cols
    /\ <<row, col>> \in args.split_panels
    /\ col + 1 >= total_cols

\* C20: a split mark on the last column of its row is not passed to
\* draw_split_panels: the step taken there adds a single rectangle of
\* standard width at the cursor position, advances the column cursor by 1
\* and the X cursor by standardWidth + gutter.
C20_MarkOnLastColumnDrawsRectangle ==
    [][MarkOnLastColumn =>
          /\ dwg' = dwg \o <<Rect(<<x, y>>, <<standard_panel_width(args, total_cols),
                                              panel_height(args)>>)>>
          /\ col' = col + 1
          /\ x' = RAdd(RAdd(x, standard_panel_width(args, total_cols)), args.gutter)
          /\ pc' = "col"]_vars

\* the marked last column of a row of at least two columns has been drawn
C20_Witness ==
    /\ pc = "col"
    /\ total_cols >= 2
    /\ col = total_cols
    /\ <<row, col - 1>> \in args.split_panels
    /\ dwg[Len(dwg)] = Rect(<<ColX(row, col - 1), RowY(row)>>,
                            <<standard_panel_width(args, total_cols), panel_height(args)>>)
    /\ x = ColX(row, col)

\* the largest X of a shape
RightmostX(s) ==
    IF s.kind = "rect" THEN RAdd(s.insert[1], s.size[1])
    ELSE CHOOSE m \in {s.points[k][1] : k \in DOMAIN s.points} :
             \A k \in DOMAIN s.points : RLe(s.points[k][1], m)

\* the last shape drawn in row r
LastShape(r) == RowShapes(r)[Len(RowShapes(r))]

\* the loop condition is evaluated with c < n: the X cursor is on the grid
CursorOnGrid == pc = "col" /\ col < total_cols => x = ColX(row, col)

\* the split pairs drawn in row r: the index in RowShapes(r) of the left polygon
PairsOf(r) ==
    {k \in 1..(Len(ExpectedShapes(r, 0)) - 1) : ExpectedShapes(r, 0)[k] = "left"}

\* the pair drawn at index k of row r has its four outer corners on the
\* corners of the box of the rectangles of the columns k - 1 and k
PairOnFrame(r, k) ==
    \E L \in {RowShapes(r)[k].points} : \E R \in {RowShapes(r)[k + 1].points} :
        \E bottom \in {RAdd(RowY(r), panel_height(args))} :
            \E right \in {RAdd(ColX(r, k), standard_panel_width(args, args.row_config[r + 1]))} :
                /\ L[1] = <<ColX(r, k - 1), RowY(r)>>
                /\ L[Len(L)] = <<ColX(r, k - 1), bottom>>
                /\ R[1] = <<right, RowY(r)>>
                /\ R[2] = <<right, bottom>>

\* the right end of the drawing area
RightMargin == RSub(args.width, args.margin)

\* the finished rows that have columns
FinishedRows == {r \in 0..(row - 1) : args.row_config[r + 1] >= 1}

RatiosInRange == \A q \in XRatiosUsed : RLe(Zero, q) /\ RLe(q, I(2))

\* the last column of row r is the second half of a split pair
EndsWithPair(r) ==
    ExpectedShapes(r, 0)[Len(ExpectedShapes(r, 0))] = "right"

PositiveCounts == \A r \in DOMAIN args.row_config : args.row_config[r] >= 1

\* an iteration of the column loop that goes on to the next evaluation of
\* its condition moves the column cursor by 1 or by 2
ColumnCursorAdvances ==
    [][pc = "col" /\ pc' = "col" => col' \in {col + 1, col + 2}]_vars

\* the column cursor never exceeds n, and the loop of a row is left with c = n
ColumnLoopExitsAtN ==
    /\ pc = "col" => col <= total_cols
    /\ pc \in {"row", "done"} /\ row > 0 => col = args.row_config[row]

\* C23 as stated: for every row of n >= 1 columns, every set of split pairs
\* and every split style the column cursor never exceeds n and the loop is
\* left with c = n, so a layout over a row_config of positive counts always
\* reaches the save.
C23_ColumnLoopReachesSave ==
    /\ ColumnLoopExitsAtN
    /\ PositiveCounts /\ CallEnded => pc = "done" /\ saved = 1

(***************************************************************************)
(* Calls of the geometry helpers on points of a grid.                      *)
(***************************************************************************)
GridPoints(m) == {<<I(a), I(b)>> : a \in 0..m, b \in 0..m}

Magnitudes == {Rat(k, 2) : k \in -MaxMag..MaxMag}

\* the segments whose length is rational (axis-parallel, 3-4-5, zero-length)
NormalInputs ==
    {i \in [p1 : GridPoints(MaxCoord), p2 : GridPoints(MaxCoord), magnitude : Magnitudes] :
        HasRationalRoot(SquaredLength(i.p1, i.p2))}

LineInputs ==
    [p1 : GridPoints(MaxLineCoord), p2 : GridPoints(MaxLineCoord),
     p3 : GridPoints(MaxLineCoord), p4 : GridPoints(MaxLineCoord)]

InitGeom ==
    /\ \/ pc = "normal" /\ args \in NormalInputs
       \/ pc = "intersect" /\ args \in LineInputs
    /\ row = 0 /\ col = 0 /\ x = Zero /\ y = Zero
    /\ dwg = <<>> /\ saved = 0
    /\ ret = NoCall

\* both normals of one segment, as draw_split_panels asks for them
CallNormalShift ==
    /\ pc = "normal"
    /\ pc' = "normal_done"
    /\ ret' = [right |-> get_normal_shift_vector(args.p1, args.p2, args.magnitude, "right"),
               left |-> get_normal_shift_vector(args.p1, args.p2, args.magnitude, "left")]
    /\ UNCHANGED <<args, row, col, x, y, dwg, saved>>

CallLineIntersection ==
    /\ pc = "intersect"
    /\ pc' = "intersect_done"
    /\ ret' = [point |-> get_line_intersection(args.p1, args.p2, args.p3, args.p4)]
    /\ UNCHANGED <<args, row, col, x, y, dwg, saved>>

NextGeom == CallNormalShift \/ CallLineIntersection

SpecGeom == InitGeom /\ [][NextGeom]_vars

(***************************************************************************)
(* Claims about the geometry helpers.                                      *)
(***************************************************************************)
Cross(u, v) == RSub(RMul(u[1], v[2]), RMul(u[2], v[1]))
Dot(u, v) == RAdd(RMul(u[1], v[1]), RMul(u[2], v[2]))
Diff(p, q) == <<RSub(p[1], q[1]), RSub(p[2], q[2])>>
Negated(v) == <<RNeg(v[1]), RNeg(v[2])>>

\* q lies on the infinite line through a and b (a # b)
OnLine(q, a, b) == Cross(Diff(q, a), Diff(b, a)) = Zero

\* C7: get_line_intersection returns None exactly when the cross product of
\* the direction vectors p2-p1 and p4-p3 is zero; otherwise the point it
\* returns lies on both lines, and no other point of the grid does.
C7_IntersectionIffNotParallel ==
    pc = "intersect_done" =>
        LET parallel == Cross(Diff(args.p2, args.p1), Diff(args.p4, args.p3)) = Zero
        IN  /\ (ret.point = None) <=> parallel
            /\ ~parallel =>
                /\ OnLine(ret.point, args.p1, args.p2)
                /\ OnLine(ret.point, args.p3, args.p4)
                /\ \A q \in GridPoints(MaxLineCoord) :
                       OnLine(q, args.p1, args.p2) /\ OnLine(q, args.p3, args.p4)
                           => q = ret.point

\* two crossing lines whose intersection is not a grid point
C7_Witness ==
    /\ pc = "intersect_done"
    /\ ret.point # None
    /\ ret.point[1][2] # 1
    /\ args.p1 # args.p3

\* C8: for p1 # p2 the right normal shift is the exact negation of the left
\* one, both are perpendicular to p2-p1, and both have squared length m*m.
C8_NormalsOppositeOfLengthM ==
    (pc = "normal_done" /\ args.p1 # args.p2) =>
        LET V == Diff(args.p2, args.p1)
            mm == RMul(args.magnitude, args.magnitude)
        IN  /\ ret.right = Negated(ret.left)
            /\ Dot(ret.right, V) = Zero
            /\ Dot(ret.left, V) = Zero
            /\ Dot(ret.right, ret.right) = mm
            /\ Dot(ret.left, ret.left) = mm

\* a slanted segment (3-4-5) shifted by a non-zero magnitude
C8_Witness ==
    /\ pc = "normal_done"
    /\ args.p1[1] # args.p2[1]
    /\ args.p1[2] # args.p2[2]
    /\ args.magnitude # Zero
    /\ ret.right # ret.left

(***************************************************************************)
(* speechbobs.py and thought_bubble.py: the bubble geometry.               *)
(***************************************************************************)
WIDTH == 800
HEIGHT == 600
CENTER_X == RDiv(I(WIDTH), I(2))
CENTER_Y == RDiv(I(HEIGHT), I(2))
CLOUD_RADIUS == 130
NUM_CIRCLES == 3

\* math.sin(math.radians(a)) and math.cos(math.radians(a)), for the angles
\* whose sine and cosine are rational: the multiples of 90 degrees
Quadrant(a) == CHOOSE k \in 0..3 : a[2] = 1 /\ (a[1] - 90 * k) % 360 = 0

sin_deg(a) ==
    LET q == Quadrant(a)
    IN  CASE q = 0 -> I(0) [] q = 1 -> I(1) [] q = 2 -> I(0) [] q = 3 -> I(-1)

cos_deg(a) ==
    LET q == Quadrant(a)
    IN  CASE q = 0 -> I(1) [] q = 1 -> I(0) [] q = 2 -> I(-1) [] q = 3 -> I(0)

\* time_to_angle without the reduction of the hour modulo 12
time_to_angle_speech_nomod(hour, minute) ==
    RAdd(I(hour * 30), RMul(I(minute), Rat(1, 2)))

\* speechbobs.py
time_to_angle_speech(hour, minute) ==
    LET h == hour % 12
    IN  RAdd(I(h * 30), RMul(I(minute), Rat(1, 2)))

\* thought_bubble.py
time_to_angle_thought(hour, minute) ==
    LET h == hour % 12
    IN  RAdd(I(h * 30), RMul(I(minute), Rat(1, 2)))

\* the tail with every circle at the start distance
calculate_thought_bubble_tail_flat(angle_degrees, offset_x, offset_y, tail_length) ==
    LET START_RADIUS == RAdd(I(CLOUD_RADIUS), RDiv(I(tail_length), I(NUM_CIRCLES)))
    IN  [k \in 1..NUM_CIRCLES |->
            <<RAdd(RAdd(CENTER_X, I(offset_x)), RMul(START_RADIUS, sin_deg(angle_degrees))),
              RSub(RAdd(CENTER_Y, I(offset_y)), RMul(START_RADIUS, cos_deg(angle_degrees))),
              5 + (NUM_CIRCLES - 1 - (k - 1)) * 3>>]

\* the list of (cx, cy, radius); index k of the sequence is i = k-1 of the loop
calculate_thought_bubble_tail(angle_degrees, offset_x, offset_y, tail_length) ==
    LET START_RADIUS == RAdd(I(CLOUD_RADIUS), RDiv(I(tail_length), I(NUM_CIRCLES)))
        bubble(i) ==
            LET bubble_radius == 5 + (NUM_CIRCLES - 1 - i) * 3
                distance_from_center ==
                    RAdd(START_RADIUS, RMul(I(i), RDiv(I(tail_length), I(NUM_CIRCLES))))
                cx == RAdd(RAdd(CENTER_X, I(offset_x)),
                           RMul(distance_from_center, sin_deg(angle_degrees)))
                cy == RSub(RAdd(CENTER_Y, I(offset_y)),
                           RMul(distance_from_center, cos_deg(angle_degrees)))
            IN  <<cx, cy, bubble_radius>>
    IN  [k \in 1..NUM_CIRCLES |-> bubble(k - 1)]

AngleInputs == [hour : -MaxHour..MaxHour, minute : 0..MaxMinute]

TailInputs ==
    [angle_degrees : {I(90 * k) : k \in 0..MaxQuarter},
     offset_x : 0..MaxOffset, offset_y : 0..MaxOffset,
     tail_length : 0..MaxTail]

InitBubble ==
    /\ \/ pc = "angle" /\ args \in AngleInputs /\ ret = [speech |-> None, thought |-> None]
       \/ pc = "tail" /\ args \in TailInputs /\ ret = NoCall
    /\ row = 0 /\ col = 0 /\ x = Zero /\ y = Zero
    /\ dwg = <<>> /\ saved = 0

\* speechbobs.py's copy applied to the inputs
CallTimeToAngleSpeech ==
    /\ pc = "angle"
    /\ ret.speech = None
    /\ ret' = [ret EXCEPT !.speech = time_to_angle_speech(args.hour, args.minute)]
    /\ UNCHANGED <<pc, args, row, col, x, y, dwg, saved>>

\* thought_bubble.py's copy applied to the same inputs
CallTimeToAngleThought ==
    /\ pc = "angle"
    /\ ret.thought = None
    /\ ret' = [ret EXCEPT !.thought = time_to_angle_thought(args.hour, args.minute)]
    /\ UNCHANGED <<pc, args, row, col, x, y, dwg, saved>>

CallThoughtBubbleTail ==
    /\ pc = "tail"
    /\ pc' = "tail_done"
    /\ ret' = [tail |-> calculate_thought_bubble_tail(args.angle_degrees, args.offset_x,
                                                      args.offset_y, args.tail_length)]
    /\ UNCHANGED <<args, row, col, x, y, dwg, saved>>

NextBubble == CallTimeToAngleSpeech \/ CallTimeToAngleThought \/ CallThoughtBubbleTail

SpecBubble == InitBubble /\ [][NextBubble]_vars

(***************************************************************************)
(* Claims about the bubble geometry.                                       *)
(***************************************************************************)
AngleOf(hour, minute) == RAdd(I((hour % 12) * 30), Rat(minute, 2))

\* C9: both copies of time_to_angle return (hour mod 12)*30 + minute*0.5;
\* (3,0) gives 90, (12,0) gives 0, (6,30) gives 195; for an hour in 1..12 and
\* a minute in 0..59 the angle lies in [0, 360).
C9_TimeToAngle ==
    (pc = "angle" /\ ret.speech # None /\ ret.thought # None) =>
        /\ ret.speech = ret.thought
        /\ ret.speech = AngleOf(args.hour, args.minute)
        /\ (args.hour = 3 /\ args.minute = 0) => ret.speech = I(90)
        /\ (args.hour = 12 /\ args.minute = 0) => ret.thought = I(0)
        /\ (args.hour = 6 /\ args.minute = 30) => ret.speech = I(195)
        /\ (args.hour \in 1..12 /\ args.minute \in 0..59) =>
               RLe(Zero, ret.speech) /\ RLt(ret.speech, I(360))

\* twelve o'clock and fifty-nine minutes: the hour is reduced to 0
C9_Witness ==
    /\ pc = "angle"
    /\ args.hour = 12 /\ args.minute = 59
    /\ ret.speech = Rat(59, 2)
    /\ ret.thought = Rat(59, 2)

\* squared distance of circle k from the centre of the (offset) bubble
TailDistance2(k) ==
    LET dx == RSub(ret.tail[k][1], RAdd(CENTER_X, I(args.offset_x)))
        dy == RSub(ret.tail[k][2], RAdd(CENTER_Y, I(args.offset_y)))
    IN  RAdd(RMul(dx, dx), RMul(dy, dy))

\* CLOUD_RADIUS + tail_length/3 + i*(tail_length/3), for i = k-1
TailFormula(k) ==
    RAdd(I(CLOUD_RADIUS), RMul(I(k), Rat(args.tail_length, 3)))

\* C10 as stated: for every non-negative tail length, tail length 0
\* included, the tail is exactly 3 circles whose distance from the bubble
\* centre is strictly increasing in the index.
C10_Original_StrictlyIncreasing ==
    pc = "tail_done" =>
        /\ Len(ret.tail) = 3
        /\ \A k \in 1..2 : RLt(TailDistance2(k), TailDistance2(k + 1))

\* C10 amended: the tail is exactly 3 circles at distance CLOUD_RADIUS +
\* tail_length/3 + i*(tail_length/3) from the bubble centre; the distance is
\* strictly increasing in i when tail_length > 0, and for tail_length = 0
\* the three circles share one centre at distance CLOUD_RADIUS.
C10_IncreasingForPositiveTail ==
    pc = "tail_done" =>
        /\ Len(ret.tail) = 3
        /\ \A k \in 1..3 : TailDistance2(k) = RMul(TailFormula(k), TailFormula(k))
        /\ args.tail_length > 0 =>
               \A k \in 1..2 : RLt(TailDistance2(k), TailDistance2(k + 1))
        /\ args.tail_length = 0 =>
               \A k \in 1..3 : /\ TailDistance2(k) = I(CLOUD_RADIUS * CLOUD_RADIUS)
                               /\ ret.tail[k][1] = ret.tail[1][1]
                               /\ ret.tail[k][2] = ret.tail[1][2]

\* a tail of positive length that is not a multiple of 3, pointing at 3 o'clock
C10_Witness ==
    /\ pc = "tail_done"
    /\ args.tail_length = 4
    /\ args.angle_degrees = I(90)
    /\ args.offset_x = 1
    /\ ret.tail[3][1] = RAdd(I(531), I(4))

\* the radii of the tail returned, in index order
TailRadii == [k \in DOMAIN ret.tail |-> ret.tail[k][3]]

\* C17 as stated: the circle at index 0 of the tail returned has the smallest
\* radius of the three; the radii in index order are 5, 8, 11.
C17_SmallestRadiusFirst ==
    pc = "tail_done" =>
        /\ TailRadii = <<5, 8, 11>>
        /\ \A k \in DOMAIN TailRadii : TailRadii[1] <= TailRadii[k]

(***************************************************************************)
(* speechbobs.py and thought_bubble.py: the bubble paths and               *)
(* create_custom_bubble.  A path is the sequence of its segments, with     *)
(* every number in it the text the f-string makes of the float.            *)
(***************************************************************************)
RX == 150
RY == 100
STROKE_WIDTH == 4
FILL_COLOR == "#FFFFFF"
STROKE_COLOR == "black"

SHADOW_COLORS ==
    <<"#E0E0E0", "#C0C0C0", "#A0A0A0", "#808080", "#606060",
      "#404040", "#303030", "#202020", "#101010", "#000000">>

\* SHADOW_COLORS.get(shade_level, '#000000')
SHADOW_COLOR(shade_level) ==
    IF shade_level \in DOMAIN SHADOW_COLORS THEN SHADOW_COLORS[shade_level] ELSE "#000000"

\* centre + radius * math.sin(angle) and centre - radius * math.cos(angle) for
\* an angle in degrees.  The sine and the cosine of the angles of a path
\* (5 and 2 degrees off the tail's angle) are not rational: the sum is kept
\* as the term of its three operands, and two sums are taken to be equal
\* when their operands are.
PlusSin(centre, radius, angle) ==
    [centre |-> centre, radius |-> radius, plus_sin |-> angle]

MinusCos(centre, radius, angle) ==
    [centre |-> centre, radius |-> radius, minus_cos |-> angle]

\* f"{v}": the text of a float, which is another text for another float
Fmt(v) == [text_of |-> v]

\* the segments "M x,y", "A rx,ry rotation large_arc,sweep x,y" and "Q cx,cy x,y"
MoveTo(px, py) == [cmd |-> "M", to |-> <<Fmt(px), Fmt(py)>>]

ArcTo(rx, ry, rotation, large_arc, sweep, px, py) ==
    [cmd |-> "A", rx |-> rx, ry |-> ry, rotation |-> rotation,
     large_arc |-> large_arc, sweep |-> sweep, to |-> <<Fmt(px), Fmt(py)>>]

QuadraticCurveTo(cx, cy, px, py) ==
    [cmd |-> "Q", control |-> <<Fmt(cx), Fmt(cy)>>, to |-> <<Fmt(px), Fmt(py)>>]

\* speechbobs.py
calculate_full_bubble_path_from_angle(angle_degrees, offset_x, offset_y, tail_length) ==
    LET TIP_EXTENSION == I(tail_length)
        OFFSET == I(5)
        CURVE_BEND_ANGLE == I(2)
        CURVE_BEND_RADIUS_RATIO == Rat(6, 10)
        X0 == RAdd(CENTER_X, I(offset_x))
        Y0 == RAdd(CENTER_Y, I(offset_y))
        P1_X == PlusSin(X0, I(RX), RSub(angle_degrees, OFFSET))
        P1_Y == MinusCos(Y0, I(RY), RSub(angle_degrees, OFFSET))
        P2_X == PlusSin(X0, I(RX), RAdd(angle_degrees, OFFSET))
        P2_Y == MinusCos(Y0, I(RY), RAdd(angle_degrees, OFFSET))
        R_Tip == RAdd(I(RX), TIP_EXTENSION)
        P_Tip_X == PlusSin(X0, R_Tip, angle_degrees)
        P_Tip_Y == MinusCos(Y0, R_Tip, angle_degrees)
        R_C1 == RAdd(I(RX), RMul(TIP_EXTENSION, CURVE_BEND_RADIUS_RATIO))
        Angle_C1 == RAdd(angle_degrees, CURVE_BEND_ANGLE)
        C1_X == PlusSin(X0, R_C1, Angle_C1)
        C1_Y == MinusCos(Y0, R_C1, Angle_C1)
        R_C2 == RAdd(I(RX), RMul(TIP_EXTENSION, CURVE_BEND_RADIUS_RATIO))
        Angle_C2 == RSub(angle_degrees, CURVE_BEND_ANGLE)
        C2_X == PlusSin(X0, R_C2, Angle_C2)
        C2_Y == MinusCos(Y0, R_C2, Angle_C2)
    IN  <<MoveTo(P1_X, P1_Y),
          ArcTo(RX, RY, 0, 1, 0, P2_X, P2_Y),
          QuadraticCurveTo(C1_X, C1_Y, P_Tip_X, P_Tip_Y),
          QuadraticCurveTo(C2_X, C2_Y, P1_X, P1_Y)>>

\* calculate_speech_bubble_path with the second curve ending at P2
calculate_speech_bubble_path_to_P2(angle_degrees, offset_x, offset_y, tail_length) ==
    LET TIP_EXTENSION == I(tail_length)
        OFFSET == I(5)
        CURVE_BEND_ANGLE == I(2)
        CURVE_BEND_RADIUS_RATIO == Rat(6, 10)
        X0 == RAdd(CENTER_X, I(offset_x))
        Y0 == RAdd(CENTER_Y, I(offset_y))
        P1_X == PlusSin(X0, I(RX), RSub(angle_degrees, OFFSET))
        P1_Y == MinusCos(Y0, I(RY), RSub(angle_degrees, OFFSET))
        P2_X == PlusSin(X0, I(RX), RAdd(angle_degrees, OFFSET))
        P2_Y == MinusCos(Y0, I(RY), RAdd(angle_degrees, OFFSET))
        R_Tip == RAdd(I(RX), TIP_EXTENSION)
        P_Tip_X == PlusSin(X0, R_Tip, angle_degrees)
        P_Tip_Y == MinusCos(Y0, R_Tip, angle_degrees)
        R_C1 == RAdd(I(RX), RMul(TIP_EXTENSION, CURVE_BEND_RADIUS_RATIO))
        Angle_C1 == RAdd(angle_degrees, CURVE_BEND_ANGLE)
        C1_X == PlusSin(X0, R_C1, Angle_C1)
        C1_Y == MinusCos(Y0, R_C1, Angle_C1)
        R_C2 == RAdd(I(RX), RMul(TIP_EXTENSION, CURVE_BEND_RADIUS_RATIO))
        Angle_C2 == RSub(angle_degrees, CURVE_BEND_ANGLE)
        C2_X == PlusSin(X0, R_C2, Angle_C2)
        C2_Y == MinusCos(Y0, R_C2, Angle_C2)
    IN  <<MoveTo(P1_X, P1_Y),
          ArcTo(RX, RY, 0, 1, 0, P2_X, P2_Y),
          QuadraticCurveTo(C1_X, C1_Y, P_Tip_X, P_Tip_Y),
          QuadraticCurveTo(C2_X, C2_Y, P2_X, P2_Y)>>

\* thought_bubble.py
calculate_speech_bubble_path(angle_degrees, offset_x, offset_y, tail_length) ==
    LET TIP_EXTENSION == I(tail_length)
        OFFSET == I(5)
        CURVE_BEND_ANGLE == I(2)
        CURVE_BEND_RADIUS_RATIO == Rat(6, 10)
        X0 == RAdd(CENTER_X, I(offset_x))
        Y0 == RAdd(CENTER_Y, I(offset_y))
        P1_X == PlusSin(X0, I(RX), RSub(angle_degrees, OFFSET))
        P1_Y == MinusCos(Y0, I(RY), RSub(angle_degrees, OFFSET))
        P2_X == PlusSin(X0, I(RX), RAdd(angle_degrees, OFFSET))
        P2_Y == MinusCos(Y0, I(RY), RAdd(angle_degrees, OFFSET))
        R_Tip == RAdd(I(RX), TIP_EXTENSION)
        P_Tip_X == PlusSin(X0, R_Tip, angle_degrees)
        P_Tip_Y == MinusCos(Y0, R_Tip, angle_degrees)
        R_C1 == RAdd(I(RX), RMul(TIP_EXTENSION, CURVE_BEND_RADIUS_RATIO))
        Angle_C1 == RAdd(angle_degrees, CURVE_BEND_ANGLE)
        C1_X == PlusSin(X0, R_C1, Angle_C1)
        C1_Y == MinusCos(Y0, R_C1, Angle_C1)
        R_C2 == RAdd(I(RX), RMul(TIP_EXTENSION, CURVE_BEND_RADIUS_RATIO))
        Angle_C2 == RSub(angle_degrees, CURVE_BEND_ANGLE)
        C2_X == PlusSin(X0, R_C2, Angle_C2)
        C2_Y == MinusCos(Y0, R_C2, Angle_C2)
    IN  <<MoveTo(P1_X, P1_Y),
          ArcTo(RX, RY, 0, 1, 0, P2_X, P2_Y),
          QuadraticCurveTo(C1_X, C1_Y, P_Tip_X, P_Tip_Y),
          QuadraticCurveTo(C2_X, C2_Y, P1_X, P1_Y)>>

\* the 12 key points of the cloud, in tenths of R from (CX, CY)
CloudPoints ==
    <<(<<9, -1>>), (<<8, -4>>), (<<4, -9>>), (<<1, -8>>), (<<-5, -9>>), (<<-9, -5>>),
      (<<-8, -1>>), (<<-9, 5>>), (<<-4, 8>>), (<<1, 9>>), (<<5, 8>>), (<<9, 4>>)>>

calculate_cloud_path(offset_x, offset_y) ==
    LET CX == RAdd(CENTER_X, I(offset_x))
        CY == RAdd(CENTER_Y, I(offset_y))
        R == I(CLOUD_RADIUS)
        points == [k \in DOMAIN CloudPoints |->
                      <<RAdd(CX, RMul(R, Rat(CloudPoints[k][1], 10))),
                        RAdd(CY, RMul(R, Rat(CloudPoints[k][2], 10)))>>]
    IN  <<MoveTo(points[1][1], points[1][2])>>
        \o [k \in 1..(Len(points) - 1) |->
               ArcTo(30, 30, 0, 0, 0, points[k + 1][1], points[k + 1][2])]
        \o <<ArcTo(30, 30, 0, 0, 0, points[1][1], points[1][2])>>

\* the shapes of create_custom_bubble
ShadowPath(program, d, shade_level) ==
    IF program = "speechbobs"
    THEN [kind |-> "path", d |-> d, fill |-> SHADOW_COLOR(shade_level),
          stroke |-> "none", stroke_width |-> I(0)]
    ELSE [kind |-> "path", d |-> d, fill |-> SHADOW_COLOR(shade_level), stroke |-> "none"]

MainPath(d) ==
    [kind |-> "path", d |-> d, fill |-> FILL_COLOR, stroke |-> STROKE_COLOR,
     stroke_width |-> I(STROKE_WIDTH), stroke_linecap |-> "round",
     stroke_linejoin |-> "round"]

MainCloud(d) ==
    [kind |-> "path", d |-> d, fill |-> FILL_COLOR, stroke |-> STROKE_COLOR,
     stroke_width |-> I(STROKE_WIDTH)]

ShadowCircle(bubble, shade_level) ==
    [kind |-> "circle", center |-> <<bubble[1], bubble[2]>>, r |-> bubble[3],
     fill |-> SHADOW_COLOR(shade_level), stroke |-> "none"]

MainCircle(bubble) ==
    [kind |-> "circle", center |-> <<bubble[1], bubble[2]>>, r |-> bubble[3],
     fill |-> FILL_COLOR, stroke |-> STROKE_COLOR,
     stroke_width |-> RDiv(I(STROKE_WIDTH), I(2))]

Text(bubble_text) ==
    [kind |-> "text", text |-> bubble_text, insert |-> <<CENTER_X, RAdd(CENTER_Y, I(10))>>,
     font_size |-> "22px", text_anchor |-> "middle", fill |-> "black",
     font_family |-> "Impact, sans-serif"]

\* the speech path of the program that runs
speech_path(program, angle_degrees, offset_x, offset_y, tail_length) ==
    IF program = "speechbobs"
    THEN calculate_full_bubble_path_from_angle(angle_degrees, offset_x, offset_y, tail_length)
    ELSE calculate_speech_bubble_path(angle_degrees, offset_x, offset_y, tail_length)

\* speechbobs.py draws the speech bubble whatever it is given; thought_bubble.py
\* draws the body of its bubble_type
draws_speech == args.program = "speechbobs" \/ args.bubble_type = "SPEECH"

draws_thought == args.program = "thought_bubble" /\ args.bubble_type = "THOUGHT"

\* 1. Shadow Path
AddShadowPath ==
    /\ pc = "draw"
    /\ draws_speech
    /\ dwg' = dwg \o <<ShadowPath(args.program,
                                  speech_path(args.program, args.angle_degrees,
                                              args.shadow_size, args.shadow_size,
                                              args.tail_length),
                                  args.shade_level)>>
    /\ pc' = "main_path"
    /\ UNCHANGED <<args, row, col, x, y, saved, ret>>

\* 2. Main Path
AddMainPath ==
    /\ pc = "main_path"
    /\ dwg' = dwg \o <<MainPath(speech_path(args.program, args.angle_degrees, 0, 0,
                                            args.tail_length))>>
    /\ pc' = "text"
    /\ UNCHANGED <<args, row, col, x, y, saved, ret>>

\* 1. Shadow Cloud Path
AddShadowCloud ==
    /\ pc = "draw"
    /\ draws_thought
    /\ dwg' = dwg \o <<ShadowPath(args.program,
                                  calculate_cloud_path(args.shadow_size, args.shadow_size),
                                  args.shade_level)>>
    /\ pc' = "main_cloud"
    /\ UNCHANGED <<args, row, col, x, y, saved, ret>>

\* 2. Main Cloud Path
AddMainCloud ==
    /\ pc = "main_cloud"
    /\ dwg' = dwg \o <<MainCloud(calculate_cloud_path(0, 0))>>
    /\ pc' = "shadow_tail"
    /\ UNCHANGED <<args, row, col, x, y, saved, ret>>

\* 3. Draw Shadow Tail Bubbles: the three circles of the for loop
AddShadowTail ==
    /\ pc = "shadow_tail"
    /\ \E shadow_tail_bubbles \in
              {calculate_thought_bubble_tail(args.angle_degrees, args.shadow_size,
                                             args.shadow_size, args.tail_length)} :
          dwg' = dwg \o [k \in DOMAIN shadow_tail_bubbles |->
                            ShadowCircle(shadow_tail_bubbles[k], args.shade_level)]
    /\ pc' = "main_tail"
    /\ UNCHANGED <<args, row, col, x, y, saved, ret>>

\* 4. Draw Main Tail Bubbles
AddMainTail ==
    /\ pc = "main_tail"
    /\ \E main_tail_bubbles \in
              {calculate_thought_bubble_tail(args.angle_degrees, 0, 0, args.tail_length)} :
          dwg' = dwg \o [k \in DOMAIN main_tail_bubbles |-> MainCircle(main_tail_bubbles[k])]
    /\ pc' = "text"
    /\ UNCHANGED <<args, row, col, x, y, saved, ret>>

\* thought_bubble.py given a bubble_type that is neither: no body is drawn
SkipBody ==
    /\ pc = "draw"
    /\ ~draws_speech
    /\ ~draws_thought
    /\ pc' = "text"
    /\ UNCHANGED <<args, row, col, x, y, dwg, saved, ret>>

\* Add Text
AddText ==
    /\ pc = "text"
    /\ dwg' = dwg \o <<Text(args.bubble_text)>>
    /\ pc' = "save"
    /\ UNCHANGED <<args, row, col, x, y, saved, ret>>

\* dwg.save(pretty=True), and the function returns
SaveBubble ==
    /\ pc = "save"
    /\ saved' = saved + 1
    /\ ret' = [returned |-> None]
    /\ pc' = "bubble_done"
    /\ UNCHANGED <<args, row, col, x, y, dwg>>

\* the two path functions called with the same arguments
CallFullBubblePath ==
    /\ pc = "path"
    /\ ret.speechbobs = None
    /\ ret' = [ret EXCEPT !.speechbobs =
                  calculate_full_bubble_path_from_angle(args.angle_degrees, args.offset_x,
                                                        args.offset_y, args.tail_length)]
    /\ UNCHANGED <<pc, args, row, col, x, y, dwg, saved>>

CallSpeechBubblePath ==
    /\ pc = "path"
    /\ ret.thought_bubble = None
    /\ ret' = [ret EXCEPT !.thought_bubble =
                  calculate_speech_bubble_path(args.angle_degrees, args.offset_x,
                                               args.offset_y, args.tail_length)]
    /\ UNCHANGED <<pc, args, row, col, x, y, dwg, saved>>

(***************************************************************************)
(* Calls of the path functions and of create_custom_bubble.                *)
(***************************************************************************)
\* shadow sizes: 0..MaxShadow
MaxShadow == 2
\* shade levels: 0..MaxShade
MaxShade == 11

\* the angles of the hours 1..12 at the full, the first, the half and the
\* last minute
PathAngles == {time_to_angle_speech(h, m) : h \in 1..12, m \in {0, 1, 30, 59}}

PathInputs ==
    [angle_degrees : PathAngles, offset_x : 0..MaxOffset, offset_y : 0..MaxOffset,
     tail_length : 0..MaxTail]

BubbleCall(program, bubble_type, hour, minute, shadow_size, shade_level, tail_length) ==
    [program |-> program, bubble_type |-> bubble_type,
     angle_degrees |-> IF program = "speechbobs" THEN time_to_angle_speech(hour, minute)
                       ELSE time_to_angle_thought(hour, minute),
     hour |-> hour, minute |-> minute, shadow_size |-> shadow_size,
     shade_level |-> shade_level, tail_length |-> tail_length,
     bubble_text |-> IF bubble_type = "THOUGHT" THEN "THINKING..." ELSE "ZAP!"]

\* a thought bubble is given the full hours of a quarter, where the sine and
\* the cosine of the tail's angle are rational
BubbleInputs ==
    {BubbleCall(pt[1], pt[2], hm[1], hm[2], shadow_size, shade_level, tail_length) :
         pt \in {<<"speechbobs", "SPEECH">>, <<"thought_bubble", "SPEECH">>,
                 <<"thought_bubble", "CLOUD">>},
         hm \in {<<3, 45>>, <<7, 30>>, <<12, 0>>},
         shadow_size \in 0..MaxShadow, shade_level \in 0..MaxShade,
         tail_length \in 0..MaxTail}
    \cup {BubbleCall("thought_bubble", "THOUGHT", hour, 0, shadow_size, shade_level,
                     tail_length) :
              hour \in {3, 6, 9, 12}, shadow_size \in 0..MaxShadow,
              shade_level \in 0..MaxShade, tail_length \in 0..MaxTail}

InitDraw ==
    /\ \/ pc = "path" /\ args \in PathInputs
                      /\ ret = [speechbobs |-> None, thought_bubble |-> None]
       \/ pc = "draw" /\ args \in BubbleInputs /\ ret = NoCall
    /\ row = 0 /\ col = 0 /\ x = Zero /\ y = Zero
    /\ dwg = <<>> /\ saved = 0

NextDraw ==
    \/ CallFullBubblePath
    \/ CallSpeechBubblePath
    \/ AddShadowPath
    \/ AddMainPath
    \/ AddShadowCloud
    \/ AddMainCloud
    \/ AddShadowTail
    \/ AddMainTail
    \/ SkipBody
    \/ AddText
    \/ SaveBubble

SpecDraw == InitDraw /\ [][NextDraw]_vars

(***************************************************************************)
(* Claims about the bubble paths and create_custom_bubble.                 *)
(***************************************************************************)
\* an offset copy in the shadow colour without a stroke
IsShadowDraw(s) == s.kind \in {"path", "circle"} /\ s.stroke = "none"

\* a white shape with a black stroke
IsMainDraw(s) ==
    s.kind \in {"path", "circle"} /\ s.fill = FILL_COLOR /\ s.stroke = STROKE_COLOR

\* C12 as stated: in every bubble generation all shadow draws are added
\* before any main draw and the single text draw after all of them; for
\* THOUGHT the order is shadow cloud and shadow tail circles, main cloud and
\* main tail circles, text.
C12_ShadowsThenMainsThenText ==
    /\ \A i, j \in DOMAIN dwg :
          i < j => /\ dwg[i].kind # "text"
                   /\ ~(IsMainDraw(dwg[i]) /\ IsShadowDraw(dwg[j]))
    /\ pc = "bubble_done" =>
          /\ dwg[Len(dwg)].kind = "text"
          /\ draws_thought =>
                /\ Len(dwg) = 2 * (1 + NUM_CIRCLES) + 1
                /\ \A k \in 1..(1 + NUM_CIRCLES) :
                      /\ IsShadowDraw(dwg[k])
                      /\ IsMainDraw(dwg[1 + NUM_CIRCLES + k])

\* the point (centre + rx * sin(angle), centre - ry * cos(angle)) of this
\* call, as the path writes it
PathPoint(rx, ry, angle) ==
    <<Fmt(PlusSin(RAdd(CENTER_X, I(args.offset_x)), rx, angle)),
      Fmt(MinusCos(RAdd(CENTER_Y, I(args.offset_y)), ry, angle))>>

\* the radius of the two control points
ControlRadius == RAdd(I(RX), RMul(I(args.tail_length), Rat(6, 10)))

\* both path functions have returned
PathsDone == pc = "path" /\ ret.speechbobs # None /\ ret.thought_bubble # None

\* C18: the speech-bubble path is the four segments MoveTo(P1), ArcTo(RX, RY,
\* rotation 0, large-arc 1, sweep 0, P2), QuadraticCurveTo(C1, Tip),
\* QuadraticCurveTo(C2, P1); the last segment ends at the MoveTo point; and
\* both programs' functions return the same path for the same arguments.
C18_SpeechPathClosedAndShared ==
    PathsDone =>
        /\ ret.speechbobs = ret.thought_bubble
        /\ \A d \in {ret.speechbobs, ret.thought_bubble} :
              /\ Len(d) = 4
              /\ d[1] = [cmd |-> "M",
                         to |-> PathPoint(I(RX), I(RY), RSub(args.angle_degrees, I(5)))]
              /\ d[2] = [cmd |-> "A", rx |-> RX, ry |-> RY, rotation |-> 0,
                         large_arc |-> 1, sweep |-> 0,
                         to |-> PathPoint(I(RX), I(RY), RAdd(args.angle_degrees, I(5)))]
              /\ d[3] = [cmd |-> "Q",
                         control |-> PathPoint(ControlRadius, ControlRadius,
                                               RAdd(args.angle_degrees, I(2))),
                         to |-> PathPoint(I(RX + args.tail_length),
                                          I(RX + args.tail_length), args.angle_degrees)]
              /\ d[4].cmd = "Q"
              /\ d[4].control = PathPoint(ControlRadius, ControlRadius,
                                          RSub(args.angle_degrees, I(2)))
              /\ d[4].to = d[1].to

\* one minute to one o'clock, offsets that differ and a tail whose 60% is no
\* whole number
C18_Witness ==
    /\ PathsDone
    /\ args.angle_degrees = Rat(59, 2)
    /\ args.offset_x = 1 /\ args.offset_y = 2
    /\ args.tail_length = 4
    /\ ret.thought_bubble[4].to = ret.speechbobs[1].to
    /\ ret.thought_bubble[2].to # ret.speechbobs[1].to

(***************************************************************************)
(* speechbobs.py and thought_bubble.py: get_user_input.  ret.locals holds  *)
(* the local variables the function returns, ret.announced the fields for  *)
(* which it has printed that the default is used.  A line of the console   *)
(* is the numeral of an integer or a word that int() rejects.              *)
(***************************************************************************)
Numeral(n) == [numeral |-> n]

Word(w) == [word |-> w]

\* input() raises EOFError
EndOfInput == [eof |-> TRUE]

\* the fields asked for as whole numbers, and the values int() has to give
Accepted ==
    [HOUR |-> 1..12, MINUTE |-> 0..59, SHADOW_SIZE |-> Nat,
     SHADE_LEVEL |-> 1..10, TAIL_LENGTH |-> Nat]

\* Initialize defaults
Defaults ==
    [HOUR |-> 3, MINUTE |-> 45, SHADOW_SIZE |-> 5, SHADE_LEVEL |-> 5, TAIL_LENGTH |-> 15]

\* the lines entered at a prompt for a number
NumberLines == {Numeral(n) : n \in {-1, 0, 5, 13, 60}} \cup {Word("abc"), Word("")}

\* the lines entered at the prompt for the text
TextLines == {Word(""), Word("POW!")}

\* one pass of the while True loop of a field: input(), int(), the range
\* test.  The field is assigned before its range is tested; a word leaves the
\* loop where it is; end of input announces the default and leaves the loop
\* with the field as it is.
AskNumber(here, field, next) ==
    /\ pc = here
    /\ \E line \in NumberLines \cup {EndOfInput} :
          IF "eof" \in DOMAIN line
          THEN /\ ret' = [ret EXCEPT !.announced = @ \cup {field}]
               /\ pc' = next
          ELSE IF "word" \in DOMAIN line
          THEN UNCHANGED <<ret, pc>>
          ELSE /\ ret' = [ret EXCEPT !.locals[field] = line.numeral]
               /\ pc' = IF line.numeral \in Accepted[field] THEN next ELSE here
    /\ UNCHANGED <<args, row, col, x, y, dwg, saved>>

\* thought_bubble.py only: Get Bubble Type Input
AskBubbleType ==
    /\ pc = "ask_type"
    /\ \E line \in NumberLines \cup {EndOfInput} :
          IF "eof" \in DOMAIN line
          THEN /\ ret' = [ret EXCEPT !.announced = @ \cup {"BUBBLE_TYPE"}]
               /\ pc' = "ask_hour"
          ELSE IF line = Numeral(1)
          THEN /\ ret' = [ret EXCEPT !.locals.BUBBLE_TYPE = "SPEECH"]
               /\ pc' = "ask_hour"
          ELSE IF line = Numeral(2)
          THEN /\ ret' = [ret EXCEPT !.locals.BUBBLE_TYPE = "THOUGHT"]
               /\ pc' = "ask_hour"
          ELSE UNCHANGED <<ret, pc>>
    /\ UNCHANGED <<args, row, col, x, y, dwg, saved>>

AskHour == AskNumber("ask_hour", "HOUR", "ask_minute")

AskMinute == AskNumber("ask_minute", "MINUTE", "ask_shadow")

AskShadowSize == AskNumber("ask_shadow", "SHADOW_SIZE", "ask_shade")

AskShadeLevel == AskNumber("ask_shade", "SHADE_LEVEL", "ask_tail")

AskTailLength == AskNumber("ask_tail", "TAIL_LENGTH", "ask_text")

\* the default text of the program
default_text ==
    IF args.program = "thought_bubble" /\ ret.locals.BUBBLE_TYPE = "THOUGHT"
    THEN "THINKING..." ELSE "ZAP!"

\* Get Bubble Text Input, and the return of the function
AskText ==
    /\ pc = "ask_text"
    /\ \E line \in TextLines \cup {EndOfInput} :
          IF "eof" \in DOMAIN line
          THEN ret' = [ret EXCEPT !.announced = @ \cup {"BUBBLE_TEXT"},
                                  !.locals.BUBBLE_TEXT = default_text]
          ELSE ret' = [ret EXCEPT !.locals.BUBBLE_TEXT =
                                      IF line.word = "" THEN default_text ELSE line.word]
    /\ pc' = "input_done"
    /\ UNCHANGED <<args, row, col, x, y, dwg, saved>>

\* the locals after "Initialize defaults"; only thought_bubble.py has a
\* BUBBLE_TYPE
InitialLocals(program) ==
    IF program = "thought_bubble"
    THEN [BUBBLE_TYPE |-> "SPEECH", HOUR |-> Defaults.HOUR, MINUTE |-> Defaults.MINUTE,
          SHADOW_SIZE |-> Defaults.SHADOW_SIZE, SHADE_LEVEL |-> Defaults.SHADE_LEVEL,
          TAIL_LENGTH |-> Defaults.TAIL_LENGTH, BUBBLE_TEXT |-> "ZAP!"]
    ELSE [HOUR |-> Defaults.HOUR, MINUTE |-> Defaults.MINUTE,
          SHADOW_SIZE |-> Defaults.SHADOW_SIZE, SHADE_LEVEL |-> Defaults.SHADE_LEVEL,
          TAIL_LENGTH |-> Defaults.TAIL_LENGTH, BUBBLE_TEXT |-> "ZAP!"]

InitInput ==
    /\ args \in {[program |-> "speechbobs"], [program |-> "thought_bubble"]}
    /\ pc = IF args.program = "thought_bubble" THEN "ask_type" ELSE "ask_hour"
    /\ ret = [locals |-> InitialLocals(args.program), announced |-> {}]
    /\ row = 0 /\ col = 0 /\ x = Zero /\ y = Zero
    /\ dwg = <<>> /\ saved = 0

NextInput ==
    \/ AskBubbleType
    \/ AskHour
    \/ AskMinute
    \/ AskShadowSize
    \/ AskShadeLevel
    \/ AskTailLength
    \/ AskText

SpecInput == InitInput /\ [][NextInput]_vars

(***************************************************************************)
(* Claims about get_user_input of the bubble programs.                     *)
(***************************************************************************)
\* C11 as stated: whatever is entered, the values returned are in range
\* (1 <= HOUR <= 12, 0 <= MINUTE <= 59, SHADOW_SIZE >= 0, 1 <= SHADE_LEVEL
\* <= 10, TAIL_LENGTH >= 0), and a field for which end of input was reported
\* has its announced default.
C11_ReturnedValuesInRange ==
    pc = "input_done" =>
        /\ \A field \in DOMAIN Accepted : ret.locals[field] \in Accepted[field]
        /\ \A field \in ret.announced \cap DOMAIN Defaults :
              ret.locals[field] = Defaults[field]

(***************************************************************************)
(* make_comic_page.py: get_user_input, the split coordinates.  args.coords *)
(* is the list of the entries between the commas, stripped and non-empty;  *)
(* ret.i is the index of the loop, ret.split_panels the list built and     *)
(* ret.warnings the warnings printed.                                      *)
(***************************************************************************)
\* the entries of the coordinate list: 0..MaxCoords
MaxCoords == 4

\* r = int(coords[i]); c = int(coords[i+1]) and the validation of (r, c)
ValidateSplit ==
    /\ pc = "splits"
    /\ Len(args.coords) % 2 = 0
    /\ ret.i < Len(args.coords)
    /\ \E rc \in {<<args.coords[ret.i + 1], args.coords[ret.i + 2]>>} :
          IF "word" \in DOMAIN rc[1] \/ "word" \in DOMAIN rc[2]
          THEN ret' = [ret EXCEPT !.i = @ + 2,
                                  !.warnings =
                                      Append(@, [text |-> "Non-integer coordinates",
                                                 coordinate |-> <<>>])]
          ELSE IF /\ 0 <= rc[1].numeral
                  /\ rc[1].numeral < Len(args.row_config)
                  /\ 0 <= rc[2].numeral + 1
                  /\ rc[2].numeral + 1 < args.row_config[rc[1].numeral + 1]
          THEN ret' = [ret EXCEPT !.i = @ + 2,
                                  !.split_panels =
                                      Append(@, <<rc[1].numeral, rc[2].numeral>>)]
          ELSE ret' = [ret EXCEPT !.i = @ + 2,
                                  !.warnings =
                                      Append(@, [text |-> "Split coordinate",
                                                 coordinate |-> <<rc[1].numeral,
                                                                  rc[2].numeral>>])]
    /\ UNCHANGED <<pc, args, row, col, x, y, dwg, saved>>

\* an odd number of entries: no coordinate is read, nothing is printed
IgnoreOddCoords ==
    /\ pc = "splits"
    /\ Len(args.coords) % 2 # 0
    /\ pc' = "splits_done"
    /\ UNCHANGED <<args, row, col, x, y, dwg, saved, ret>>

\* the for loop ends
EndSplits ==
    /\ pc = "splits"
    /\ Len(args.coords) % 2 = 0
    /\ ret.i >= Len(args.coords)
    /\ pc' = "splits_done"
    /\ UNCHANGED <<args, row, col, x, y, dwg, saved, ret>>

\* the entries of the coordinate list
CoordEntries == {Numeral(n) : n \in -1..2} \cup {Word("a")}

\* the row lists entered before: none, one row, a row of no panel, wide rows
CoordRowConfigs == {<<>>, <<1>>, <<2, 0>>, <<1, 3>>}

CoordInputs ==
    [row_config : CoordRowConfigs,
     coords : UNION {[1..n -> CoordEntries] : n \in 0..MaxCoords}]

InitCoords ==
    /\ pc = "splits"
    /\ args \in CoordInputs
    /\ ret = [i |-> 0, split_panels |-> <<>>, warnings |-> <<>>]
    /\ row = 0 /\ col = 0 /\ x = Zero /\ y = Zero
    /\ dwg = <<>> /\ saved = 0

NextCoords == ValidateSplit \/ IgnoreOddCoords \/ EndSplits

SpecCoords == InitCoords /\ [][NextCoords]_vars

(***************************************************************************)
(* Claims about the split coordinates of get_user_input.                   *)
(***************************************************************************)
\* (r, c) names a column of row_config that has a column after it
InBounds(r, c) ==
    /\ 0 <= r /\ r < Len(args.row_config)
    /\ c >= 0 /\ c + 1 < args.row_config[r + 1]

\* the pairs of integers entered, in the order entered
EnteredPairs ==
    SelectSeq([k \in 1..(Len(args.coords) \div 2) |->
                  <<args.coords[2 * k - 1], args.coords[2 * k]>>],
              LAMBDA rc : "numeral" \in DOMAIN rc[1] /\ "numeral" \in DOMAIN rc[2])

\* C19 as stated: every coordinate (r, c) accepted into split_panels has
\* 0 <= r < len(row_config), c >= 0 and c + 1 < row_config[r]; every other
\* coordinate entered, a negative column included, is rejected with a warning.
C19_AcceptedSplitsInBounds ==
    /\ \A k \in DOMAIN ret.split_panels :
          InBounds(ret.split_panels[k][1], ret.split_panels[k][2])
    /\ (pc = "splits_done" /\ Len(args.coords) % 2 = 0) =>
          \A k \in DOMAIN EnteredPairs :
              ~InBounds(EnteredPairs[k][1].numeral, EnteredPairs[k][2].numeral) =>
                  \E w \in DOMAIN ret.warnings :
                      ret.warnings[w] =
                          [text |-> "Split coordinate",
                           coordinate |-> <<EnteredPairs[k][1].numeral,
                                            EnteredPairs[k][2].numeral>>]

====
